---- MODULE Spec2Model ----
(***************************************************************************)
(* A model of the load balancer of submissions/504: the listener-rule      *)
(* table (config.py), target groups and their targets (target_group.py,    *)
(* target.py), the health checker (health_check.py) and the four selection *)
(* algorithms of LoadBalancer.select_target (load_balancer.py).            *)
(***************************************************************************)
EXTENDS Integers, Sequences, FiniteSets, TLC

\* ------------------------------------------------------------------ bounds

\* Largest weight a TARGET_GROUP_<N>_WEIGHTS entry takes in the model.
MaxWeight == 2
\* Largest health-check threshold the model configures.
MaxThreshold == 2
\* Cap on consecutive_failures / consecutive_successes (unbounded in the code).
MaxCount == 3
\* Latest clock reading (milliseconds) a request observes.
MaxTime == 3
\* Longest recorded sequence of sequential select_target calls.
MaxPicks == 6
\* Longest recorded sequence of sticky select_target calls.
MaxStickyPicks == 4
\* Requests handled concurrently.
MaxRequests == 2
\* Threads HealthCheck.start() starts for one HealthCheck.
MaxStarts == 2
\* Calls of select_target the threads start between them.
MaxCalls == 4
\* Largest active_connections of a target when a least-response-time call
\* is made.
MaxActive == 2

\* ------------------------------------------------------------------ state

VARIABLES
  algorithm,                \* Config.load_balancing_algorithm
  session_ttl,              \* Config.session_ttl (ms)
  target_groups,            \* Config.target_groups: name -> TargetGroup (fixed fields)
  rule_env,                 \* the LISTENER_RULE_<N>_* environment variables, N = 1, 2, ...
  listener_rules,           \* Config.listener_rules
  health_check,             \* TargetGroup.health_check per group: the HealthCheck object
  thread,                   \* position of each group's _health_check_loop
  round_robin_counters,     \* LoadBalancer.round_robin_counters
  weighted_target_lists,    \* LoadBalancer.weighted_target_lists
  weighted_counters,        \* LoadBalancer.weighted_counters
  sticky_sessions,          \* LoadBalancer.sticky_sessions
  active_connections,       \* Target.active_connections per group and target
  ttfb_samples,             \* Target._ttfb_samples per group and target
  now,                      \* latest reading of time.time() in ms
  selected,                 \* the select_target call made by the latest step, with its return value
  matched,                  \* the find_listener_rule call made by the latest step, with its return value
  probes,                   \* per group and target: the current run of equal probe outcomes
  bindings,                 \* per group and client: the target and time of the latest sticky binding
  picks,                    \* the select_target calls recorded so far, in order
  handler,                  \* per request: how far proxy() has got, and its response
  rewritten,                \* the latest rewrite_uri call: its rule, argument and return value
  environ,                  \* os.environ as Config() reads it, where Config() runs as a step
  constructed,              \* Config(): "no" before the call, then "ok" or the exception raised
  header_convention_enable, \* Config.header_convention_enable
  sent,                     \* the headers of the latest session.request call, and the request's own
  callers,                  \* per request thread: its position in select_target and its locals
  tally,                    \* calls of select_target started, and returns per target
  pick,                     \* the return of a thread's select_target call in the latest step
  discarded,                \* the session entry the latest _sticky call deleted, if any
  loop,                     \* per group: the statement _health_check_loop is at, and what it has seen
  derived,                  \* the latest request's client address, as _sticky and as forward_request derive it
  workers,                  \* per request thread: the statement of proxy() it is at, and its locals
  sticky_lock,              \* LoadBalancer.sticky_lock: the thread that holds it
  lock,                     \* Target._lock per group and target: the thread that holds it
  loops                     \* per group: the threads HealthCheck.start() has started, in order

cfgVars == <<algorithm, session_ttl, target_groups, rule_env, listener_rules>>
hcVars == <<health_check, thread>>
lbVars == <<round_robin_counters, weighted_target_lists, weighted_counters, sticky_sessions>>
metricVars == <<active_connections, ttfb_samples>>
histVars == <<probes, bindings, picks>>
reqVars == <<handler>>
rewriteVars == <<rewritten>>
buildVars == <<environ, constructed>>
headerVars == <<header_convention_enable, sent>>
threadVars == <<callers, tally, pick>>
stickyVars == <<discarded>>
loopVars == <<loop>>
lockVars == <<workers, sticky_lock, lock>>
callVars == <<derived, lockVars, loops>>
auxVars == <<rewriteVars, buildVars, headerVars, threadVars, stickyVars, loopVars, callVars>>
vars == <<cfgVars, hcVars, lbVars, metricVars, now, selected, matched, histVars, reqVars,
          auxVars>>

\* ------------------------------------------------------------- dictionaries

EmptyDict == [k \in {} |-> 0]

DictPut(d, k, v) == [x \in (DOMAIN d) \cup {k} |-> IF x = k THEN v ELSE d[x]]

DictDel(d, k) == [x \in (DOMAIN d) \ {k} |-> d[x]]

DictGet(d, k, default) == IF k \in DOMAIN d THEN d[k] ELSE default

\* ---------------------------------------------- config.py, listener_rule.py

\* Strings are sequences of characters.
startswith(s, prefix) ==
  Len(prefix) <= Len(s) /\ SubSeq(s, 1, Len(prefix)) = prefix

\* os.getenv returned None or the empty string: a path, and a group name.
Unset == <<>>

UnsetName == ""

\* ListenerRule.__init__; index is the N of LISTENER_RULE_<N>, the identity
\* of the rule object.
ListenerRule(index, path_prefix, path_rewrite, target_group) ==
  [index |-> index, path_prefix |-> path_prefix, path_rewrite |-> path_rewrite,
   target_group |-> target_group]

\* The while loop of Config._parse_listener_rules from rule_index on: it stops
\* at the first index with no PATH_PREFIX and skips a rule with no TARGET_GROUP.
RECURSIVE ScanRules(_, _)
ScanRules(env, rule_index) ==
  IF rule_index > Len(env) \/ env[rule_index].path_prefix = Unset THEN <<>>
  ELSE (IF env[rule_index].target_group # UnsetName
        THEN <<ListenerRule(rule_index, env[rule_index].path_prefix,
                            env[rule_index].path_rewrite, env[rule_index].target_group)>>
        ELSE <<>>)
       \o ScanRules(env, rule_index + 1)

\* A sort that is not stable: rule goes before the rules of its own length.
RECURSIVE InsertBeforeEqual(_, _)
InsertBeforeEqual(rule, sorted) ==
  IF sorted = <<>> THEN <<rule>>
  ELSE IF Len(Head(sorted).path_prefix) <= Len(rule.path_prefix)
       THEN <<rule>> \o sorted
       ELSE <<Head(sorted)>> \o InsertBeforeEqual(rule, Tail(sorted))

\* rule goes before the first rule of the sorted list that is strictly shorter.
RECURSIVE InsertByLength(_, _)
InsertByLength(rule, sorted) ==
  IF sorted = <<>> THEN <<rule>>
  ELSE IF Len(Head(sorted).path_prefix) < Len(rule.path_prefix)
       THEN <<rule>> \o sorted
       ELSE <<Head(sorted)>> \o InsertByLength(rule, Tail(sorted))

\* rules.sort(key=lambda r: len(r.path_prefix), reverse=True): a stable sort,
\* rules of equal length keep their order.
RECURSIVE SortByPrefixLength(_)
SortByPrefixLength(rules) ==
  IF rules = <<>> THEN <<>>
  ELSE InsertByLength(rules[Len(rules)],
                      SortByPrefixLength(SubSeq(rules, 1, Len(rules) - 1)))

\* Config._parse_listener_rules
parse_listener_rules(env) == SortByPrefixLength(ScanRules(env, 1))

\* find_listener_rule returned None
NoRule == ListenerRule(0, Unset, Unset, UnsetName)

\* Config.find_listener_rule: the first rule of the list whose prefix matches.
RECURSIVE find_listener_rule(_, _)
find_listener_rule(rules, path) ==
  IF rules = <<>> THEN NoRule
  ELSE IF startswith(path, Head(rules).path_prefix) THEN Head(rules)
       ELSE find_listener_rule(Tail(rules), path)

\* if not rewritten.startswith('/'): rewritten = '/' + rewritten
EnsureSlash(s) == IF startswith(s, <<"/">>) THEN s ELSE <<"/">> \o s

\* uri[len(path_rewrite):]
StripPrefix(uri, path_rewrite) == SubSeq(uri, Len(path_rewrite) + 1, Len(uri))

\* The prefix is stripped without a look at how the URI starts.
StripUnchecked(rule, uri) ==
  IF rule.path_rewrite # Unset
  THEN EnsureSlash(StripPrefix(uri, rule.path_rewrite))
  ELSE uri

\* ListenerRule.rewrite_uri
rewrite_uri(rule, uri) ==
  IF rule.path_rewrite # Unset /\ startswith(uri, rule.path_rewrite)
  THEN EnsureSlash(StripPrefix(uri, rule.path_rewrite))
  ELSE uri

\* No rewrite_uri call so far.
NoRewrite == [calls |-> 0, rule |-> NoRule, uri |-> Unset, result |-> Unset]

\* ------------------------------------------------------- target_group.py

Hostnames == {"h1", "h2", "h3"}

\* The addresses socket.getaddrinfo reports for each hostname: h3 has two.
resolve_dns(hostname) ==
  CASE hostname = "h1" -> <<"10.0.0.1">>
    [] hostname = "h2" -> <<"10.0.0.2">>
    [] hostname = "h3" -> <<"10.0.0.3", "10.0.0.4">>
    [] OTHER -> <<>>

\* No TARGET_GROUP_<N>_WEIGHTS: Config._parse_weights returned None.
NoWeights == [provided |-> FALSE, map |-> EmptyDict]

Weights(m) == [provided |-> TRUE, map |-> m]

\* weight = self.weights.get(hostname, 1) if self.weights else 1
get_weight(weights, hostname) ==
  IF DOMAIN weights.map # {} THEN DictGet(weights.map, hostname, 1) ELSE 1

\* Target.__init__: weight = max(1, int(weight))
Target(ip, port, hostname, weight) ==
  [ip |-> ip, port |-> port, hostname |-> hostname,
   weight |-> IF weight > 1 THEN weight ELSE 1]

\* The targets of one spec: one Target per resolved IP.
TargetsOfSpec(spec, weights) ==
  LET ips == resolve_dns(spec.hostname)
  IN [k \in 1..Len(ips) |->
        Target(ips[k], spec.port, spec.hostname, get_weight(weights, spec.hostname))]

RECURSIVE parse_targets(_, _)
parse_targets(specs, weights) ==
  IF specs = <<>> THEN <<>>
  ELSE TargetsOfSpec(Head(specs), weights) \o parse_targets(Tail(specs), weights)

\* TargetGroup.__init__
TargetGroup(specs, weights, enabled, succeed, failure) ==
  [weights |-> weights.map,
   weights_provided |-> weights.provided,
   targets |-> parse_targets(specs, weights),
   health_check_enabled |-> enabled,
   health_check_succeed_threshold |-> succeed,
   health_check_failure_threshold |-> failure]

\* TargetGroup.__init__ defaults
DefaultSucceedThreshold == 2

DefaultFailureThreshold == 2

\* The environment outside the steps that read it.
NoEnviron == [LOAD_BALANCING_ALGORITHM |-> "", groups |-> <<>>]

\* TARGET_GROUP_<N>_WEIGHTS is not set, or is the empty string.
UnsetWeights == EmptyDict

\* Config._parse_weights on the hostname -> weight entries of the variable:
\* None without entries, ValueError for a weight below 1.
parse_weights(weights_env) ==
  IF DOMAIN weights_env = {} THEN [raised |-> FALSE, weights |-> NoWeights]
  ELSE IF \E h \in DOMAIN weights_env : weights_env[h] < 1
       THEN [raised |-> TRUE, weights |-> NoWeights]
       ELSE [raised |-> FALSE, weights |-> Weights(weights_env)]

\* Config._validate_weights raises: a hostname of TARGETS has no weight.
validate_weights_raises(specs, weights) ==
  \E k \in 1..Len(specs) : specs[k].hostname \notin DOMAIN weights.map

\* Config._parse_target_groups from group_index on, target_groups being the
\* dictionary built so far: it stops at the first index with no NAME and
\* creates no group for an empty TARGETS.
RECURSIVE parse_target_groups(_, _, _)
parse_target_groups(env, group_index, groups) ==
  IF group_index > Len(env.groups) \/ env.groups[group_index].NAME = UnsetName
  THEN [raised |-> FALSE, target_groups |-> groups]
  ELSE LET e == env.groups[group_index]
           w == parse_weights(e.WEIGHTS)
       IN IF e.TARGETS = <<>> THEN parse_target_groups(env, group_index + 1, groups)
          ELSE IF w.raised THEN [raised |-> TRUE, target_groups |-> groups]
          ELSE IF /\ w.weights.provided
                  /\ env.LOAD_BALANCING_ALGORITHM = "WEIGHTED"
                  /\ validate_weights_raises(e.TARGETS, w.weights)
               THEN [raised |-> TRUE, target_groups |-> groups]
               ELSE parse_target_groups(env, group_index + 1,
                      DictPut(groups, e.NAME, TargetGroup(e.TARGETS, w.weights, FALSE,
                                  DefaultSucceedThreshold, DefaultFailureThreshold)))

\* No group is asked for its weights.
WeightsNotRequired(groups) == FALSE

\* Config._validate_weighted_algorithm_has_weights raises: a group's weights
\* dictionary is empty.
weighted_algorithm_lacks_weights(groups) ==
  \E g \in DOMAIN groups : DOMAIN groups[g].weights = {}

\* Config.__init__, lines 19 to 32: the algorithm and the target groups, or
\* the ValueError raised.
Config(env) ==
  LET p == parse_target_groups(env, 1, EmptyDict)
  IN [raised |-> \/ p.raised
                 \/ /\ env.LOAD_BALANCING_ALGORITHM = "WEIGHTED"
                    /\ weighted_algorithm_lacks_weights(p.target_groups),
      load_balancing_algorithm |-> env.LOAD_BALANCING_ALGORITHM,
      target_groups |-> p.target_groups]

\* n copies of element x
RECURSIVE Repeat(_, _)
Repeat(x, n) == IF n <= 0 THEN <<>> ELSE <<x>> \o Repeat(x, n - 1)

\* Each target once, whatever its weight.
ExpandOnce(targets, i) == [k \in 1..(Len(targets) - i + 1) |-> i + k - 1]

RECURSIVE ExpandFrom(_, _)
ExpandFrom(targets, i) ==
  IF i > Len(targets) THEN <<>>
  ELSE Repeat(i, targets[i].weight) \o ExpandFrom(targets, i + 1)

\* TargetGroup.get_weighted_target_list: target indices, each weight times.
get_weighted_target_list(group) ==
  IF ~group.weights_provided THEN <<>> ELSE ExpandFrom(group.targets, 1)

\* --------------------------------------------------------- health_check.py

\* TargetGroup.health_check = None
NoHealthCheck ==
  [exists |-> FALSE, enabled |-> FALSE, running |-> FALSE,
   succeed_threshold |-> 0, failure_threshold |-> 0, target_health |-> EmptyDict]

\* HealthCheck.__init__ followed by HealthCheck.start()
NewHealthCheck(group) ==
  [exists |-> TRUE, enabled |-> group.health_check_enabled,
   running |-> group.health_check_enabled,
   succeed_threshold |-> group.health_check_succeed_threshold,
   failure_threshold |-> group.health_check_failure_threshold,
   target_health |-> EmptyDict]

\* A target is taken for unhealthy until a probe has shown otherwise.
InitiallyUnhealthy == [consecutive_failures |-> 0, consecutive_successes |-> 0, healthy |-> FALSE]

\* _check_target_health: the record a target gets when its first probe begins
InitialHealth == [consecutive_failures |-> 0, consecutive_successes |-> 0, healthy |-> TRUE]

\* _check_target_health up to the call of _perform_health_check:
\* if target not in self.target_health, the record is created.
begin_check(target_health, i) ==
  IF i \in DOMAIN target_health THEN target_health
  ELSE [k \in DOMAIN target_health \cup {i} |->
          IF k = i THEN InitialHealth ELSE target_health[k]]

\* The for loop goes on to the next probe whatever `running` is.
StopIgnored(running) == FALSE

\* _health_check_loop: if not self.running (then break)
stop_seen(running) == ~running

\* No thread runs _health_check_loop. `observed`: the thread has read
\* self.running as False; `late`: the probes that ended after stop().
NoLoop == [pc |-> "none", observed |-> FALSE, late |-> 0]

\* The threshold has to be exceeded.
SucceedThresholdExceeded(hc, consecutive_successes) ==
  consecutive_successes > hc.succeed_threshold

\* health_info['consecutive_successes'] >= self.succeed_threshold
SucceedThresholdReached(hc, consecutive_successes) ==
  consecutive_successes >= hc.succeed_threshold

\* The threshold has to be exceeded.
FailureThresholdExceeded(hc, consecutive_failures) ==
  consecutive_failures > hc.failure_threshold

\* health_info['consecutive_failures'] >= self.failure_threshold
FailureThresholdReached(hc, consecutive_failures) ==
  consecutive_failures >= hc.failure_threshold

\* A successful probe that never marks the target healthy.
SuccessKeepingFlag(hc, info) ==
  [consecutive_failures |-> 0,
   consecutive_successes |-> info.consecutive_successes + 1,
   healthy |-> info.healthy]

\* The health_info of a probed target after a successful probe.
OnSuccess(hc, info) ==
  LET cs == info.consecutive_successes + 1
  IN [consecutive_failures |-> 0, consecutive_successes |-> cs,
      healthy |-> IF SucceedThresholdReached(hc, cs) THEN TRUE ELSE info.healthy]

\* A failed probe that leaves consecutive_successes as it was.
FailureKeepingSuccesses(hc, info) ==
  LET cf == info.consecutive_failures + 1
  IN [consecutive_failures |-> cf,
      consecutive_successes |-> info.consecutive_successes,
      healthy |-> IF FailureThresholdReached(hc, cf) THEN FALSE ELSE info.healthy]

\* The health_info of a probed target after a failed probe.
OnFailure(hc, info) ==
  LET cf == info.consecutive_failures + 1
  IN [consecutive_failures |-> cf, consecutive_successes |-> 0,
      healthy |-> IF FailureThresholdReached(hc, cf) THEN FALSE ELSE info.healthy]

\* HealthCheck._check_target_health: target_health after probing target i
\* with outcome is_healthy.
check_target_health(hc, i, is_healthy) ==
  LET info == DictGet(hc.target_health, i, InitialHealth)
  IN DictPut(hc.target_health, i,
             IF is_healthy THEN OnSuccess(hc, info) ELSE OnFailure(hc, info))

\* Every target counts as healthy.
AssumedHealthy(hc, i) == TRUE

\* HealthCheck.is_target_healthy
is_target_healthy(hc, i) ==
  IF ~hc.enabled THEN TRUE
  ELSE IF i \notin DOMAIN hc.target_health THEN TRUE
  ELSE hc.target_health[i].healthy

\* The subsequence of 1..n whose members satisfy keep, in order.
RECURSIVE FilterIdx(_, _, _)
FilterIdx(hc, i, n) ==
  IF i > n THEN <<>>
  ELSE (IF is_target_healthy(hc, i) THEN <<i>> ELSE <<>>) \o FilterIdx(hc, i + 1, n)

AllIdx(n) == [k \in 1..n |-> k]

\* HealthCheck.get_healthy_targets
hc_get_healthy_targets(hc, n) ==
  IF ~hc.enabled THEN AllIdx(n) ELSE FilterIdx(hc, 1, n)

\* TargetGroup.get_healthy_targets: the healthy view, as target indices.
get_healthy_targets(group, hc) ==
  IF ~group.health_check_enabled \/ ~hc.exists THEN AllIdx(Len(group.targets))
  ELSE hc_get_healthy_targets(hc, Len(group.targets))

\* -------------------------------------------------------- load_balancer.py

Algorithms == {"ROUND_ROBIN", "WEIGHTED", "STICKY", "LRT"}

Clients == {"A", "B"}

\* The LoadBalancer's selection state, as select_target reads and writes it.
LB ==
  [round_robin_counters |-> round_robin_counters,
   weighted_target_lists |-> weighted_target_lists,
   weighted_counters |-> weighted_counters,
   sticky_sessions |-> sticky_sessions]

\* select_target returned None
None == 0

Result(target, lb, hit) == [target |-> target, lb |-> lb, hit |-> hit]

\* The counter is not advanced.
SameIndex(index, n) == index % n

\* (index + 1) % len(targets): the counter for the next request
NextIndex(index, n) == (index + 1) % n

\* request.remote_addr is None
NoneAddr == "None"

\* LoadBalancer._get_client_ip. x_forwarded_for is the header's value as
\* the list of its comma-separated elements, each stripped (<<>>: no
\* such header); access_route is request.access_route.
get_client_ip(x_forwarded_for, access_route, remote_addr) ==
  IF x_forwarded_for # <<>> /\ x_forwarded_for[1] # "" THEN x_forwarded_for[1]
  ELSE IF access_route # <<>> THEN access_route[1]
  ELSE IF remote_addr \in {NoneAddr, ""} THEN "unknown"
  ELSE remote_addr

\* forward_request: client_ip = request.access_route[0] if
\* request.access_route else request.remote_addr
forward_client_ip(access_route, remote_addr) ==
  IF access_route # <<>> THEN access_route[1] ELSE remote_addr

\* No request's client address has been derived.
NoDerivation ==
  [called |-> FALSE, x_forwarded_for |-> <<>>, access_route |-> <<>>,
   remote_addr |-> NoneAddr, sticky |-> "", forwarded |-> ""]

\* A round robin whose counter is advanced for every configured group.
RoundRobinAllGroups(g, targets, lb) ==
  LET index == DictGet(lb.round_robin_counters, g, 0)
      target == targets[(index % Len(targets)) + 1]
  IN Result(target,
            [lb EXCEPT !.round_robin_counters =
                          [h \in DOMAIN target_groups |->
                             NextIndex(index, Len(targets))]],
            FALSE)

\* LoadBalancer._round_robin over the list `targets` of target indices.
round_robin(g, targets, lb) ==
  LET index == DictGet(lb.round_robin_counters, g, 0)
      target == targets[(index % Len(targets)) + 1]
  IN Result(target,
            [lb EXCEPT !.round_robin_counters =
                          DictPut(@, g, NextIndex(index, Len(targets)))],
            FALSE)

\* The index as read, not reduced.
UnreducedIndex(index, n) == index

\* index % len(targets)
ReducedIndex(index, n) == index % n

\* targets[i] raised IndexError
IndexError == -1

\* targets[i], i counted from 0
ElementAt(targets, i) == IF i + 1 \in DOMAIN targets THEN targets[i + 1] ELSE IndexError

\* Request threads
Callers == {"t1", "t2"}

\* No select_target call returned in the latest step.
NoPick == [called |-> FALSE, view |-> <<>>, index |-> 0, position |-> 0, target |-> None]

\* A thread outside select_target.
IdleCaller == [pc |-> "idle", k |-> 0, targets |-> <<>>, index |-> 0]

NoCalls == [started |-> 0, returned |-> EmptyDict]

\* threading.Lock: no thread holds the lock
Free == ""

\* A lock is handed to any thread that asks, held or not.
AlwaysAcquire(owner) == TRUE

\* with <lock>: entering the block waits until no thread holds the lock
can_acquire(owner) == owner = Free

\* The lock stays with the thread that leaves the block.
StillHeld(owner) == owner

\* with <lock>: leaving the block releases the lock
release(owner) == Free

\* A request thread outside proxy(). `time` and `targets` are what _sticky
\* and select_target read before the lock, `n` is the counter value read
\* inside Target._lock, `first`: the client had no session when the request
\* began, `served`: select_target has returned `target` for the request.
IdleWorker ==
  [pc |-> "idle", client |-> "", time |-> 0, targets |-> <<>>, target |-> None,
   n |-> 0, first |-> FALSE, served |-> FALSE]

\* LoadBalancer._weighted
weighted(g, group, targets, lb) ==
  LET built == get_weighted_target_list(group)
      lists == IF g \in DOMAIN lb.weighted_target_lists
               THEN lb.weighted_target_lists
               ELSE DictPut(lb.weighted_target_lists, g,
                            IF built = <<>> THEN targets ELSE built)
      weighted_list == lists[g]
      index == DictGet(lb.weighted_counters, g, 0)
  IN IF weighted_list = <<>>
     THEN Result(targets[1], [lb EXCEPT !.weighted_target_lists = lists], FALSE)
     ELSE Result(weighted_list[(index % Len(weighted_list)) + 1],
                 [lb EXCEPT !.weighted_target_lists = lists,
                            !.weighted_counters =
                               DictPut(@, g, NextIndex(index, Len(weighted_list)))],
                 FALSE)

\* Target.avg_ttfb as the fraction num/den (samples in units of 0.001 s),
\* with the 0.001 floor _least_response_time applies when avg <= 0.
RECURSIVE SumSeq(_)
SumSeq(s) == IF s = <<>> THEN 0 ELSE Head(s) + SumSeq(Tail(s))

\* avg = 0.001, in the unit of the samples, 0.0005 s
UnknownAvg == 2

\* The average as a fraction AvgNum / AvgDen: the mean of the samples, or
\* 0.001 s when avg <= 0.0.
AvgNum(samples) == IF SumSeq(samples) = 0 THEN UnknownAvg ELSE SumSeq(samples)

AvgDen(samples) == IF SumSeq(samples) = 0 THEN 1 ELSE Len(samples)

\* avg(a) < avg(b): the connections in flight take no part.
AvgLess(g, a, b) ==
  AvgNum(ttfb_samples[g][a]) * AvgDen(ttfb_samples[g][b])
    < AvgNum(ttfb_samples[g][b]) * AvgDen(ttfb_samples[g][a])

\* metric(a) <= metric(b): a later target of equal metric replaces the best.
MetricLessOrEqual(g, a, b) ==
  active_connections[g][a] * AvgNum(ttfb_samples[g][a]) * AvgDen(ttfb_samples[g][b])
    <= active_connections[g][b] * AvgNum(ttfb_samples[g][b]) * AvgDen(ttfb_samples[g][a])

\* metric(a) < metric(b), metric = active_connections * avg
MetricLess(g, a, b) ==
  active_connections[g][a] * AvgNum(ttfb_samples[g][a]) * AvgDen(ttfb_samples[g][b])
    < active_connections[g][b] * AvgNum(ttfb_samples[g][b]) * AvgDen(ttfb_samples[g][a])

RECURSIVE lrt_scan(_, _, _, _)
lrt_scan(g, targets, k, best) ==
  IF k > Len(targets) THEN best
  ELSE lrt_scan(g, targets, k + 1,
                IF best = None \/ MetricLess(g, targets[k], best) THEN targets[k] ELSE best)

\* LoadBalancer._least_response_time
least_response_time(g, targets, lb) == Result(lrt_scan(g, targets, 1, None), lb, FALSE)

\* t.ip == target.ip and t.port == target.port
SameAddress(group, a, b) ==
  /\ group.targets[a].ip = group.targets[b].ip
  /\ group.targets[a].port = group.targets[b].port

\* The first member of `targets` with the address of target a.
FirstSameAddress(group, targets, a) ==
  targets[CHOOSE k \in 1..Len(targets) :
            /\ SameAddress(group, targets[k], a)
            /\ \A j \in 1..(k - 1) : ~SameAddress(group, targets[j], a)]

\* The session expires at once.
NoExpiration(current_time_ms) == current_time_ms

\* expiration_time = current_time_ms + session_ttl_ms
NewExpiration(current_time_ms) == current_time_ms + session_ttl

\* A sticky hit that also advances the group's round-robin counter.
StickyHitAdvancing(g, lb, group_sessions, client_ip, t, expiration_time) ==
  [lb EXCEPT !.sticky_sessions =
     DictPut(@, g, DictPut(group_sessions, client_ip,
                           [target |-> t, expiration_time |-> expiration_time])),
             !.round_robin_counters =
     DictPut(@, g, DictGet(lb.round_robin_counters, g, 0) + 1)]

\* A sticky hit that starts the session's time to live anew.
StickyHitExtending(g, lb, group_sessions, client_ip, t, expiration_time) ==
  [lb EXCEPT !.sticky_sessions =
     DictPut(@, g, DictPut(group_sessions, client_ip,
                           [target |-> t,
                            expiration_time |-> expiration_time + session_ttl]))]

\* The LoadBalancer after a sticky hit on target t: the stored instance is refreshed.
StickyHit(g, lb, group_sessions, client_ip, t, expiration_time) ==
  [lb EXCEPT !.sticky_sessions =
     DictPut(@, g, DictPut(group_sessions, client_ip,
                           [target |-> t, expiration_time |-> expiration_time]))]

\* A session is still honoured at the very instant it expires.
ValidAtExpiry(current_time_ms, expiration_time, target_still_available) ==
  current_time_ms <= expiration_time /\ target_still_available

\* current_time_ms < expiration_time and target_still_available
session_valid(current_time_ms, expiration_time, target_still_available) ==
  current_time_ms < expiration_time /\ target_still_available

\* No session entry.
NoEntry == [target |-> None, expiration_time |-> 0]

\* LoadBalancer._sticky for client_ip at current_time_ms
sticky(g, group, targets, lb, client_ip, current_time_ms) ==
  LET group_sessions == DictGet(lb.sticky_sessions, g, EmptyDict)
      has_session == client_ip \in DOMAIN group_sessions
      entry == group_sessions[client_ip]
      target_still_available ==
        \E k \in 1..Len(targets) : SameAddress(group, targets[k], entry.target)
      valid == /\ has_session
               /\ session_valid(current_time_ms, entry.expiration_time,
                                target_still_available)
      fresh == round_robin(g, targets, lb)
  IN IF valid
     THEN LET t == FirstSameAddress(group, targets, entry.target)
          IN Result(t, StickyHit(g, lb, group_sessions, client_ip, t, entry.expiration_time),
                    TRUE)
     ELSE Result(fresh.target,
                 [fresh.lb EXCEPT !.sticky_sessions =
                    DictPut(@, g, DictPut(group_sessions, client_ip,
                       [target |-> fresh.target,
                        expiration_time |-> NewExpiration(current_time_ms)]))],
                 FALSE)

\* LoadBalancer.select_target on group g for a request of client_ip that
\* reads the clock as current_time_ms.
select_target(g, client_ip, current_time_ms) ==
  LET group == target_groups[g]
      targets == get_healthy_targets(group, health_check[g])
  IN IF targets = <<>> THEN Result(None, LB, FALSE)
     ELSE CASE algorithm = "ROUND_ROBIN" -> round_robin(g, targets, LB)
            [] algorithm = "LRT" -> least_response_time(g, targets, LB)
            [] algorithm = "WEIGHTED" -> weighted(g, group, targets, LB)
            [] algorithm = "STICKY" -> sticky(g, group, targets, LB, client_ip, current_time_ms)
            [] OTHER -> round_robin(g, targets, LB)

\* ------------------------------------------- app.py and error_handler.py

\* The requests the server handles, each on a thread of its own, numbered
\* in the order in which they enter proxy().
Reqs == 1..MaxRequests

\* No response yet.
NoResponse == [origin |-> "none", status |-> 0, body |-> ""]

\* The message is sent to the client.
ErrorWithMessage(status_code) == [origin |-> "proxy", status |-> status_code, body |-> "message"]

\* Every error is answered 200.
ErrorAsOk(status_code) == [origin |-> "proxy", status |-> 200, body |-> ""]

\* error_handler.handle_error: Response('', status=status_code)
handle_error(status_code) == [origin |-> "proxy", status |-> status_code, body |-> ""]

\* No upstream call has come to an end.
NoOutcome == [kind |-> "none", status |-> 0, body |-> ""]

\* A request that has not entered proxy() yet. `rule` is the index of the
\* listener rule found for it, `raised` the step of proxy() that raised,
\* `upstream` what the upstream call came to; while forward_request runs,
\* group and target are its arguments.
IdleRequest ==
  [pc |-> "idle", rule |-> 0, group |-> UnsetName, target |-> None,
   dispatched |-> FALSE, raised |-> "none", upstream |-> NoOutcome,
   response |-> NoResponse]

\* The exception leaves proxy().
Propagate(raised) == [origin |-> "exception", status |-> 0, body |-> raised]

\* proxy(): except Exception as e: return handle_error(502, ...)
except_Exception(raised) == handle_error(502)

\* Every rule lookup is taken for a match.
RuleNeverMissing(rule) == FALSE

\* proxy(): if not listener_rule
rule_missing(rule) == rule = NoRule

\* The step of proxy() that raises, if any.
Raises == {"none", "find_listener_rule", "get_target_group", "select_target", "rewrite_uri"}

\* What session.request and the reading of response.content come to:
\* a response of the upstream, or an exception of the requests library.
UpstreamStatuses == {200, 418, 500}

UpstreamBodies == {"body"}

UpstreamOutcomes ==
  {[kind |-> "response", status |-> st, body |-> b] :
      st \in UpstreamStatuses, b \in UpstreamBodies}
  \cup {[kind |-> k, status |-> 0, body |-> ""] :
      k \in {"Timeout", "ConnectionError", "Exception"}}

\* Target.inc_connections
inc_connections(active) == active + 1

\* The counter is left as it is.
KeepConnections(active) == active

\* Target.dec_connections
dec_connections(active) == IF active > 0 THEN active - 1 ELSE active

\* A timeout is answered like a connection error.
TimeoutAsConnectionError(outcome) ==
  IF outcome.kind = "response"
  THEN [origin |-> "upstream", status |-> outcome.status, body |-> outcome.body]
  ELSE handle_error(502)

\* An upstream 5xx is replaced by the proxy's own 502.
RewritingUpstreamErrors(outcome) ==
  IF outcome.kind = "response" /\ outcome.status < 500
  THEN [origin |-> "upstream", status |-> outcome.status, body |-> outcome.body]
  ELSE IF outcome.kind = "Timeout" THEN handle_error(504)
  ELSE handle_error(502)

\* A failed upstream call sends the request back to be dispatched again.
RetryAfterFailure(outcome) == IF outcome.kind = "response" THEN "done" ELSE "selected"

\* Where forward_request goes once session.request has come to `outcome`:
\* the try block and each of the three except clauses end in a return.
after_request(outcome) == "done"

\* The except clauses of forward_request, and its return of the upstream's response.
forward_response(outcome) ==
  IF outcome.kind = "response"
  THEN [origin |-> "upstream", status |-> outcome.status, body |-> outcome.body]
  ELSE IF outcome.kind = "Timeout" THEN handle_error(504)
  ELSE IF outcome.kind = "ConnectionError" THEN handle_error(502)
  ELSE handle_error(502)

\* proxy() from its entry to the call of forward_request: the response it
\* returns early, or NoResponse with the target it selected; `called` tells
\* whether select_target ran, `lb` is the LoadBalancer afterwards.
route(path, client_ip, current_time_ms, raises) ==
  LET rule == find_listener_rule(listener_rules, path)
      g == rule.target_group
      early(response, index, raised) ==
        [response |-> response, rule |-> index, raised |-> raised,
         group |-> UnsetName, target |-> None,
         called |-> FALSE, hit |-> FALSE, lb |-> LB]
  IN IF raises = "find_listener_rule" THEN early(except_Exception(raises), 0, raises)
     ELSE IF rule_missing(rule) THEN early(handle_error(404), 0, "none")
     ELSE IF raises = "get_target_group" THEN early(except_Exception(raises), rule.index, raises)
     ELSE IF g \notin DOMAIN target_groups THEN early(handle_error(503), rule.index, "none")
     ELSE IF target_groups[g].targets = <<>> THEN early(handle_error(503), rule.index, "none")
     ELSE IF raises = "select_target" THEN early(except_Exception(raises), rule.index, raises)
     ELSE LET r == select_target(g, client_ip, current_time_ms)
              after(response, raised) ==
                [response |-> response, rule |-> rule.index, raised |-> raised,
                 group |-> g, target |-> r.target,
                 called |-> TRUE, hit |-> r.hit, lb |-> r.lb]
          IN IF r.target = None THEN after(handle_error(503), "none")
             ELSE IF raises = "rewrite_uri" THEN after(except_Exception(raises), raises)
             ELSE after(NoResponse, "none")

\* Header names as werkzeug reports them.
HeaderNames ==
  {"Host", "Connection", "Keep-Alive", "Transfer-Encoding", "Accept", "X-Forwarded-For"}

\* key.lower()
lower(key) ==
  CASE key = "Host" -> "host"
    [] key = "Connection" -> "connection"
    [] key = "Keep-Alive" -> "keep-alive"
    [] key = "Transfer-Encoding" -> "transfer-encoding"
    [] key = "Accept" -> "accept"
    [] key = "X-Forwarded-For" -> "x-forwarded-for"
    [] OTHER -> key

HOP_BY_HOP_HEADERS == {"connection", "keep-alive", "transfer-encoding"}

\* headers = {key: value for key, value in request.headers
\*            if key.lower() not in HOP_BY_HOP_HEADERS}
drop_hop_by_hop(request_headers) ==
  [key \in {k \in DOMAIN request_headers : lower(k) \notin HOP_BY_HOP_HEADERS} |->
     request_headers[key]]

\* request.host: the Host header, or the server's own name without one.
request_host(request_headers) == DictGet(request_headers, "Host", <<"server">>)

\* The X-Forwarded-* block, lines 309 to 339. Header values are lists of
\* the comma-separated items.
add_convention_headers(headers, request_headers, client_ip) ==
  LET xff == IF "X-Forwarded-For" \in DOMAIN headers
             THEN headers["X-Forwarded-For"] \o <<client_ip>>
             ELSE <<client_ip>>
      added == [k \in {"X-Forwarded-For", "X-Forwarded-Host", "X-Forwarded-Port",
                        "X-Forwarded-Proto", "X-Real-IP", "X-Request-Id", "Host"} |->
                 CASE k = "X-Forwarded-For" -> xff
                   [] k = "X-Forwarded-Host" -> request_host(request_headers)
                   [] k = "X-Forwarded-Port" -> <<"8080">>
                   [] k = "X-Forwarded-Proto" -> <<"http">>
                   [] k = "X-Real-IP" -> <<client_ip>>
                   [] k = "X-Request-Id" -> <<"uuid4">>
                   [] OTHER -> request_host(request_headers)]
  IN [k \in DOMAIN headers \cup DOMAIN added |->
        IF k \in DOMAIN added THEN added[k] ELSE headers[k]]

\* forward_request, lines 301 to 339: the headers passed to session.request.
forward_headers(request_headers, enable, client_ip) ==
  LET headers == drop_hop_by_hop(request_headers)
  IN IF enable THEN add_convention_headers(headers, request_headers, client_ip)
     ELSE headers

\* No session.request call so far.
NoHeaders == [called |-> FALSE, request |-> EmptyDict, headers |-> EmptyDict]

\* ------------------------------------------------------------ configuration

GroupNames == {"backend"}

Spec1(hostname) == [hostname |-> hostname, port |-> 8080]

\* TARGET_GROUP_<N>_TARGETS of the running system: two single-address hosts.
TargetSpecs == {<<Spec1("h1"), Spec1("h2")>>}

HostsOf(specs) == {specs[k].hostname : k \in 1..Len(specs)}

\* TARGET_GROUP_<N>_WEIGHTS. Under WEIGHTED, Config() raises unless every
\* host of the group has a weight (_validate_weights,
\* _validate_weighted_algorithm_has_weights); the other algorithms never
\* read the weights.
WeightChoices(alg, specs) ==
  IF alg = "WEIGHTED"
  THEN {Weights(m) : m \in [HostsOf(specs) -> 1..MaxWeight]}
  ELSE {NoWeights}

Thresholds == 1..MaxThreshold

\* SESSION_TTL values (ms)
SessionTtls == {2}

\* No select_target call in the latest step.
NoCall == [called |-> FALSE, group |-> "", client |-> "", time |-> 0, target |-> None]

\* No find_listener_rule call in the latest step.
NoMatch == [called |-> FALSE, path |-> Unset, rule |-> NoRule]

\* The rule table of the running system: every path goes to the one group.
DefaultRuleEnv ==
  <<[path_prefix |-> <<"/">>, path_rewrite |-> Unset, target_group |-> "backend"]>>

ZeroMetrics(groups, v) ==
  [g \in DOMAIN groups |-> [i \in 1..Len(groups[g].targets) |-> v]]

\* The state after Config() and LoadBalancer(config) are constructed.
Fresh ==
  /\ health_check = [g \in DOMAIN target_groups |-> NoHealthCheck]
  /\ thread = [g \in DOMAIN target_groups |-> 0]
  /\ round_robin_counters = EmptyDict
  /\ weighted_target_lists = EmptyDict
  /\ weighted_counters = EmptyDict
  /\ sticky_sessions = EmptyDict
  /\ active_connections = ZeroMetrics(target_groups, 0)
  /\ ttfb_samples = ZeroMetrics(target_groups, <<>>)
  /\ now = 0
  /\ selected = NoCall
  /\ matched = NoMatch
  /\ probes = [g \in DOMAIN target_groups |-> EmptyDict]
  /\ bindings = EmptyDict
  /\ picks = <<>>
  /\ handler = [r \in Reqs |-> IdleRequest]
  /\ rewritten = NoRewrite
  /\ environ = NoEnviron
  /\ constructed = "ok"
  /\ header_convention_enable = FALSE
  /\ sent = NoHeaders
  /\ callers = [c \in Callers |-> IdleCaller]
  /\ tally = NoCalls
  /\ pick = NoPick
  /\ discarded = NoEntry
  /\ loop = [g \in GroupNames |-> NoLoop]
  /\ derived = NoDerivation
  /\ workers = [c \in Callers |-> IdleWorker]
  /\ sticky_lock = Free
  /\ lock = EmptyDict
  /\ loops = [g \in GroupNames |-> <<>>]

Init ==
  /\ algorithm \in Algorithms
  /\ session_ttl \in SessionTtls
  /\ \E specs \in TargetSpecs, enabled \in BOOLEAN :
       \E w \in WeightChoices(algorithm, specs) :
         target_groups = [g \in GroupNames |->
            TargetGroup(specs, w, enabled, DefaultSucceedThreshold, DefaultFailureThreshold)]
  /\ rule_env = DefaultRuleEnv
  /\ listener_rules = parse_listener_rules(rule_env)
  /\ Fresh

\* ------------------------------------------------------------------ actions

NumTargets(g) == Len(target_groups[g].targets)

\* TargetGroup.start_health_checks: creates the HealthCheck and starts its thread.
StartThread(g) ==
  /\ target_groups[g].health_check_enabled
  /\ ~health_check[g].exists
  /\ health_check' = [health_check EXCEPT ![g] = NewHealthCheck(target_groups[g])]
  /\ thread' = [thread EXCEPT ![g] = 1]
  /\ selected' = NoCall
  /\ matched' = NoMatch
  /\ UNCHANGED <<cfgVars, lbVars, metricVars, now, histVars, reqVars>>

StartHealthChecks(g) ==
  /\ StartThread(g)
  /\ UNCHANGED auxVars

\* The counter the observation increments is below the cap.
BelowCap(hc, i, is_healthy) ==
  LET info == DictGet(hc.target_health, i, InitialHealth)
  IN IF is_healthy THEN info.consecutive_successes < MaxCount
     ELSE info.consecutive_failures < MaxCount

\* The run of equal probe outcomes of target i after one more outcome:
\* its outcome, its length, and the health flag the target had when it began.
Observe(g, i, is_healthy) ==
  LET old == probes[g]
      continues == i \in DOMAIN old /\ old[i].ok = is_healthy
  IN DictPut(old, i,
       [ok |-> is_healthy,
        run |-> IF continues THEN old[i].run + 1 ELSE 1,
        start_healthy |-> IF continues THEN old[i].start_healthy
                          ELSE is_target_healthy(health_check[g], i)])

\* One iteration of the for loop of _health_check_loop: the probe of the
\* target at the loop's position answers is_healthy.
CheckNextTarget(g, is_healthy) ==
  /\ health_check[g].exists
  /\ health_check[g].running
  /\ thread[g] \in 1..NumTargets(g)
  /\ BelowCap(health_check[g], thread[g], is_healthy)
  /\ health_check' = [health_check EXCEPT ![g].target_health =
                         check_target_health(health_check[g], thread[g], is_healthy)]
  /\ thread' = [thread EXCEPT ![g] = @ + 1]
  /\ selected' = NoCall
  /\ matched' = NoMatch
  /\ UNCHANGED <<cfgVars, lbVars, metricVars, now, bindings, picks, reqVars, auxVars>>

Probe(g, is_healthy) ==
  /\ CheckNextTarget(g, is_healthy)
  /\ UNCHANGED probes

\* The same step, with the probe outcome recorded.
ObservedProbe(g, is_healthy) ==
  /\ CheckNextTarget(g, is_healthy)
  /\ probes' = [probes EXCEPT ![g] = Observe(g, thread[g], is_healthy)]

\* time.sleep(self.interval) at the end of a round, then the next round.
Sleep(g) ==
  /\ health_check[g].exists
  /\ health_check[g].running
  /\ thread[g] = NumTargets(g) + 1
  /\ thread' = [thread EXCEPT ![g] = 1]
  /\ selected' = NoCall
  /\ matched' = NoMatch
  /\ UNCHANGED <<cfgVars, health_check, lbVars, metricVars, now, histVars, reqVars, auxVars>>

\* Only _sticky reads the client address and the clock.
ClientsRead == IF algorithm = "STICKY" THEN Clients ELSE {"A"}

TimesRead == IF algorithm = "STICKY" THEN now..MaxTime ELSE {now}

\* The new binding table after a select_target call.
Bind(g, client_ip, current_time_ms, r) ==
  IF algorithm = "STICKY" /\ r.target # None /\ ~r.hit
  THEN DictPut(bindings, g,
               DictPut(DictGet(bindings, g, EmptyDict), client_ip,
                       [target |-> r.target, time |-> current_time_ms]))
  ELSE bindings

\* The effect of load_balancer.select_target(group g, request) on the
\* LoadBalancer, for a request of client_ip with the clock at current_time_ms.
SelectTarget(g, client_ip, current_time_ms) ==
  LET r == select_target(g, client_ip, current_time_ms)
  IN /\ round_robin_counters' = r.lb.round_robin_counters
     /\ weighted_target_lists' = r.lb.weighted_target_lists
     /\ weighted_counters' = r.lb.weighted_counters
     /\ sticky_sessions' = r.lb.sticky_sessions
     /\ now' = current_time_ms
     /\ selected' = [called |-> TRUE, group |-> g, client |-> client_ip,
                     time |-> current_time_ms, target |-> r.target]
     /\ bindings' = Bind(g, client_ip, current_time_ms, r)

\* A request thread calls select_target.
Select(g, client_ip, current_time_ms) ==
  /\ SelectTarget(g, client_ip, current_time_ms)
  /\ matched' = NoMatch
  /\ UNCHANGED <<cfgVars, hcVars, metricVars, probes, picks, reqVars, auxVars>>

\* The same call, with the session entry that _sticky deleted on the way.
ObservedSelect(g, client_ip, current_time_ms) ==
  /\ SelectTarget(g, client_ip, current_time_ms)
  /\ LET r == select_target(g, client_ip, current_time_ms)
         group_sessions == DictGet(sticky_sessions, g, EmptyDict)
     IN discarded' = IF /\ algorithm = "STICKY"
                        /\ r.target # None
                        /\ ~r.hit
                        /\ client_ip \in DOMAIN group_sessions
                     THEN group_sessions[client_ip]
                     ELSE NoEntry
  /\ matched' = NoMatch
  /\ UNCHANGED <<cfgVars, hcVars, metricVars, probes, picks, reqVars, rewriteVars,
                 buildVars, headerVars, threadVars, loopVars, callVars>>

\* The same call, recorded: load_balancer.select_target called directly,
\* one call after the other.
Call(g, client_ip, current_time_ms) ==
  /\ Len(picks) < (IF algorithm = "STICKY" THEN MaxStickyPicks ELSE MaxPicks)
  /\ SelectTarget(g, client_ip, current_time_ms)
  /\ picks' = Append(picks, selected')
  /\ matched' = NoMatch
  /\ UNCHANGED <<cfgVars, hcVars, metricVars, probes, reqVars, auxVars>>

\* config.find_listener_rule(path)
FindListenerRule(path) ==
  /\ matched' = [called |-> TRUE, path |-> path,
                 rule |-> find_listener_rule(listener_rules, path)]
  /\ selected' = NoCall
  /\ UNCHANGED <<cfgVars, hcVars, lbVars, metricVars, now, histVars, reqVars, auxVars>>

Next ==
  \/ \E g \in GroupNames : StartHealthChecks(g)
  \/ \E g \in GroupNames, is_healthy \in BOOLEAN : Probe(g, is_healthy)
  \/ \E g \in GroupNames : Sleep(g)
  \/ \E g \in GroupNames, c \in ClientsRead, t \in TimesRead : Select(g, c, t)

Spec == Init /\ [][Next]_vars

\* STICKY alone over two hosts, with the checker of the group and the
\* requests of one client.
InitSticky ==
  /\ algorithm = "STICKY"
  /\ session_ttl \in SessionTtls
  /\ target_groups = [g \in GroupNames |->
        TargetGroup(<<Spec1("h1"), Spec1("h2")>>, NoWeights, TRUE,
                    DefaultSucceedThreshold, DefaultFailureThreshold)]
  /\ rule_env = DefaultRuleEnv
  /\ listener_rules = parse_listener_rules(rule_env)
  /\ Fresh

NextSticky ==
  \/ \E g \in GroupNames : StartHealthChecks(g)
  \/ \E g \in GroupNames, is_healthy \in BOOLEAN : Probe(g, is_healthy)
  \/ \E g \in GroupNames : Sleep(g)
  \/ \E g \in GroupNames, t \in TimesRead : ObservedSelect(g, "A", t)

SpecSticky == InitSticky /\ [][NextSticky]_vars

\* ------------------------------------------- sequential calls, a fixed view

\* TARGET_GROUP_<N>_TARGETS: two hosts, and a host with two addresses.
SeqTargetSpecs ==
  {<<Spec1("h1"), Spec1("h2")>>, <<Spec1("h1"), Spec1("h3")>>}

\* health_info after failure_threshold rounds of successful probes
AfterSuccesses(group) ==
  [consecutive_failures |-> 0,
   consecutive_successes |-> group.health_check_failure_threshold,
   healthy |-> TRUE]

\* health_info after failure_threshold rounds of failed probes
AfterFailures(group) ==
  [consecutive_failures |-> group.health_check_failure_threshold,
   consecutive_successes |-> 0,
   healthy |-> FALSE]

\* The checker of a group when the calls begin: never started, just started,
\* or asleep after failure_threshold rounds in which each target answered
\* the same way every time.
SeqHealthChecks(group) ==
  IF ~group.health_check_enabled THEN {[hc |-> NoHealthCheck, thread |-> 0]}
  ELSE {[hc |-> NoHealthCheck, thread |-> 0],
        [hc |-> NewHealthCheck(group), thread |-> 1]}
       \cup {[hc |-> [NewHealthCheck(group) EXCEPT !.target_health = h],
              thread |-> Len(group.targets) + 1] :
             h \in [1..Len(group.targets) ->
                      {AfterSuccesses(group), AfterFailures(group)}]}

InitSeq ==
  /\ algorithm \in Algorithms
  /\ session_ttl \in SessionTtls
  /\ \E specs \in SeqTargetSpecs, enabled \in BOOLEAN :
       \E w \in WeightChoices(algorithm, specs) :
         target_groups = [g \in GroupNames |->
            TargetGroup(specs, w, enabled, DefaultSucceedThreshold, DefaultFailureThreshold)]
  /\ rule_env = DefaultRuleEnv
  /\ listener_rules = parse_listener_rules(rule_env)
  /\ \E h \in [GroupNames -> UNION {SeqHealthChecks(target_groups[g]) : g \in GroupNames}] :
       /\ \A g \in GroupNames : h[g] \in SeqHealthChecks(target_groups[g])
       /\ health_check = [g \in GroupNames |-> h[g].hc]
       /\ thread = [g \in GroupNames |-> h[g].thread]
  /\ round_robin_counters = EmptyDict
  /\ weighted_target_lists = EmptyDict
  /\ weighted_counters = EmptyDict
  /\ sticky_sessions = EmptyDict
  /\ active_connections = ZeroMetrics(target_groups, 0)
  /\ ttfb_samples = ZeroMetrics(target_groups, <<>>)
  /\ now = 0
  /\ selected = NoCall
  /\ matched = NoMatch
  /\ probes = [g \in GroupNames |-> EmptyDict]
  /\ bindings = EmptyDict
  /\ picks = <<>>
  /\ handler = [r \in Reqs |-> IdleRequest]
  /\ rewritten = NoRewrite
  /\ environ = NoEnviron
  /\ constructed = "ok"
  /\ header_convention_enable = FALSE
  /\ sent = NoHeaders
  /\ callers = [c \in Callers |-> IdleCaller]
  /\ tally = NoCalls
  /\ pick = NoPick
  /\ discarded = NoEntry
  /\ loop = [g \in GroupNames |-> NoLoop]
  /\ derived = NoDerivation
  /\ workers = [c \in Callers |-> IdleWorker]
  /\ sticky_lock = Free
  /\ lock = EmptyDict
  /\ loops = [g \in GroupNames |-> <<>>]

NextSeq == \E g \in GroupNames, c \in ClientsRead, t \in TimesRead : Call(g, c, t)

SpecSeq == InitSeq /\ [][NextSeq]_vars

\* ------------------------------------------------------ the checker alone

InitHealth ==
  /\ algorithm = "ROUND_ROBIN"
  /\ session_ttl \in SessionTtls
  /\ \E st \in Thresholds, ft \in Thresholds :
       target_groups = [g \in GroupNames |->
          TargetGroup(<<Spec1("h1"), Spec1("h2")>>, NoWeights, TRUE, st, ft)]
  /\ rule_env = DefaultRuleEnv
  /\ listener_rules = parse_listener_rules(rule_env)
  /\ Fresh

NextHealth ==
  \/ \E g \in GroupNames : StartHealthChecks(g)
  \/ \E g \in GroupNames, is_healthy \in BOOLEAN : ObservedProbe(g, is_healthy)
  \/ \E g \in GroupNames : Sleep(g)

SpecHealth == InitHealth /\ [][NextHealth]_vars

\* --------------------------------------------------- least response time

\* The TTFB samples of a target, in units of 0.0005 s: none, 0.5 ms, 1 ms,
\* 0.5 ms and 1 ms, 2 ms.
SampleLists == {<<>>, <<1>>, <<2>>, <<1, 2>>, <<4>>}

\* Nothing is recorded yet.
Quiet ==
  /\ selected = NoCall
  /\ matched = NoMatch
  /\ probes = [g \in DOMAIN target_groups |-> EmptyDict]
  /\ bindings = EmptyDict
  /\ picks = <<>>
  /\ handler = [r \in Reqs |-> IdleRequest]
  /\ rewritten = NoRewrite
  /\ environ = NoEnviron
  /\ constructed = "ok"
  /\ header_convention_enable = FALSE
  /\ sent = NoHeaders
  /\ callers = [c \in Callers |-> IdleCaller]
  /\ tally = NoCalls
  /\ pick = NoPick
  /\ discarded = NoEntry
  /\ loop = [g \in GroupNames |-> NoLoop]
  /\ derived = NoDerivation
  /\ workers = [c \in Callers |-> IdleWorker]
  /\ sticky_lock = Free
  /\ lock = EmptyDict
  /\ loops = [g \in GroupNames |-> <<>>]

\* LRT over two or three targets with the metrics that earlier requests
\* have left and the checker at rest.
\* The proxy's components under LRT, but for the connection counters; the
\* sample list of each target is one of `lists`.
LrtComponents(lists) ==
  /\ algorithm = "LRT"
  /\ session_ttl \in SessionTtls
  /\ \E specs \in SeqTargetSpecs :
       target_groups = [g \in GroupNames |->
          TargetGroup(specs, NoWeights, TRUE,
                      DefaultSucceedThreshold, DefaultFailureThreshold)]
  /\ rule_env = DefaultRuleEnv
  /\ listener_rules = parse_listener_rules(rule_env)
  /\ \E h \in [GroupNames -> UNION {SeqHealthChecks(target_groups[g]) : g \in GroupNames}] :
       /\ \A g \in GroupNames : h[g] \in SeqHealthChecks(target_groups[g])
       /\ health_check = [g \in GroupNames |-> h[g].hc]
       /\ thread = [g \in GroupNames |-> h[g].thread]
  /\ round_robin_counters = EmptyDict
  /\ weighted_target_lists = EmptyDict
  /\ weighted_counters = EmptyDict
  /\ sticky_sessions = EmptyDict
  /\ ttfb_samples \in [GroupNames ->
        UNION {[1..Len(target_groups[g].targets) -> lists] : g \in GroupNames}]
  /\ \A g \in GroupNames : DOMAIN ttfb_samples[g] = 1..Len(target_groups[g].targets)
  /\ now = 0
  /\ Quiet

InitLrt ==
  /\ LrtComponents(SampleLists)
  /\ active_connections \in [GroupNames ->
        UNION {[1..Len(target_groups[g].targets) -> 0..MaxActive] : g \in GroupNames}]
  /\ \A g \in GroupNames : DOMAIN active_connections[g] = 1..Len(target_groups[g].targets)

NextLrt == \E g \in GroupNames : Select(g, "A", now)

SpecLrt == InitLrt /\ [][NextLrt]_vars

\* -------------------------------------------------------- the rule table

\* Largest N of a LISTENER_RULE_<N>_* variable that is set.
MaxRules == 3

\* LISTENER_RULE_<N>_PATH_PREFIX values: "/", "/a", "/a/b", "/z"
Prefixes ==
  {<<"/">>, <<"/", "a">>, <<"/", "a", "/", "b">>, <<"/", "z">>}

\* Request paths: "/", "/a/b/x", "/a/c", "/ab", "/z", "/y"
Paths ==
  {<<"/">>, <<"/", "a", "/", "b", "/", "x">>, <<"/", "a", "/", "c">>,
   <<"/", "a", "b">>, <<"/", "z">>, <<"/", "y">>}

RuleEnvEntries ==
  [path_prefix : Prefixes \cup {Unset}, path_rewrite : {Unset},
   target_group : {"backend", UnsetName}]

InitRules ==
  /\ algorithm = "ROUND_ROBIN"
  /\ session_ttl \in SessionTtls
  /\ target_groups = [g \in GroupNames |->
        TargetGroup(<<Spec1("h1"), Spec1("h2")>>, NoWeights, FALSE,
                    DefaultSucceedThreshold, DefaultFailureThreshold)]
  /\ rule_env \in [1..MaxRules -> RuleEnvEntries]
  /\ listener_rules = parse_listener_rules(rule_env)
  /\ Fresh

NextRules == \E path \in Paths : FindListenerRule(path)

SpecRules == InitRules /\ [][NextRules]_vars

\* ------------------------------------------------------------- rewriting

\* LISTENER_RULE_<N>_PATH_REWRITE values: unset, "/", "/a", "/a/b", "a"
Rewrites ==
  {Unset, <<"/">>, <<"/", "a">>, <<"/", "a", "/", "b">>, <<"a">>}

\* URIs: "/", "/a", "/a/a/x", "/a/b/x", "/ab", "//a", "/z"
Uris ==
  {<<"/">>, <<"/", "a">>, <<"/", "a", "/", "a", "/", "x">>,
   <<"/", "a", "/", "b", "/", "x">>, <<"/", "a", "b">>, <<"/", "/", "a">>,
   <<"/", "z">>}

\* rule.rewrite_uri(uri) for a rule of the table.
RewriteUri(k, uri) ==
  /\ k \in 1..Len(listener_rules)
  /\ rewritten' = [calls |-> 1, rule |-> listener_rules[k], uri |-> uri,
                   result |-> rewrite_uri(listener_rules[k], uri)]
  /\ selected' = NoCall
  /\ matched' = NoMatch
  /\ UNCHANGED <<cfgVars, hcVars, lbVars, metricVars, now, histVars, reqVars,
                 buildVars, headerVars, threadVars, stickyVars, loopVars, callVars>>

\* The same rule's rewrite_uri applied to what the latest call returned.
RewriteAgain ==
  /\ rewritten.calls = 1
  /\ rewritten' = [calls |-> 2, rule |-> rewritten.rule, uri |-> rewritten.result,
                   result |-> rewrite_uri(rewritten.rule, rewritten.result)]
  /\ selected' = NoCall
  /\ matched' = NoMatch
  /\ UNCHANGED <<cfgVars, hcVars, lbVars, metricVars, now, histVars, reqVars,
                 buildVars, headerVars, threadVars, stickyVars, loopVars, callVars>>

InitRewrite ==
  /\ algorithm = "ROUND_ROBIN"
  /\ session_ttl \in SessionTtls
  /\ target_groups = [g \in GroupNames |->
        TargetGroup(<<Spec1("h1"), Spec1("h2")>>, NoWeights, FALSE,
                    DefaultSucceedThreshold, DefaultFailureThreshold)]
  /\ \E path_prefix \in Prefixes, path_rewrite \in Rewrites :
       rule_env = <<[path_prefix |-> path_prefix, path_rewrite |-> path_rewrite,
                     target_group |-> "backend"]>>
  /\ listener_rules = parse_listener_rules(rule_env)
  /\ Fresh

NextRewrite ==
  \/ \E k \in 1..MaxRules, uri \in Uris : RewriteUri(k, uri)
  \/ RewriteAgain

SpecRewrite == InitRewrite /\ [][NextRewrite]_vars

\* ------------------------------------------------- the client's address

\* Addresses: two hosts, and the empty string
Addresses == {"", "10.0.0.1", "10.0.0.2"}

\* X-Forwarded-For: absent, or one or two elements
ForwardedFors ==
  {<<>>} \cup {<<a>> : a \in Addresses} \cup {<<a, b>> : a \in Addresses, b \in Addresses}

\* request.access_route: empty, or one or two addresses
AccessRoutes ==
  {<<>>} \cup {<<a>> : a \in Addresses} \cup {<<a, b>> : a, b \in Addresses \ {""}}

\* request.remote_addr
RemoteAddrs == {NoneAddr, "10.0.0.1", "10.0.0.2"}

\* One request: _sticky derives its client_ip with _get_client_ip,
\* forward_request derives its own.
DeriveClient(x_forwarded_for, access_route, remote_addr) ==
  /\ derived' = [called |-> TRUE, x_forwarded_for |-> x_forwarded_for,
                  access_route |-> access_route, remote_addr |-> remote_addr,
                  sticky |-> get_client_ip(x_forwarded_for, access_route, remote_addr),
                  forwarded |-> forward_client_ip(access_route, remote_addr)]
  /\ selected' = NoCall
  /\ matched' = NoMatch
  /\ UNCHANGED <<cfgVars, hcVars, lbVars, metricVars, now, histVars, reqVars,
                 rewriteVars, buildVars, headerVars, threadVars, stickyVars, loopVars,
                 lockVars, loops>>

InitClient ==
  /\ algorithm = "STICKY"
  /\ session_ttl \in SessionTtls
  /\ target_groups = [g \in GroupNames |->
        TargetGroup(<<Spec1("h1"), Spec1("h2")>>, NoWeights, FALSE,
                    DefaultSucceedThreshold, DefaultFailureThreshold)]
  /\ rule_env = DefaultRuleEnv
  /\ listener_rules = parse_listener_rules(rule_env)
  /\ Fresh

NextClient ==
  \E x \in ForwardedFors, r \in AccessRoutes, a \in RemoteAddrs : DeriveClient(x, r, a)

SpecClient == InitClient /\ [][NextClient]_vars

\* ---------------------------------------------------------- construction

\* TARGET_GROUP_<N>_NAME values
EnvNames == {UnsetName, "backend", "api"}

\* TARGET_GROUP_<N>_TARGETS values: empty, two hosts, a host that does not
\* resolve.
EnvTargets == {<<>>, <<Spec1("h1"), Spec1("h2")>>, <<Spec1("h0")>>}

\* TARGET_GROUP_<N>_WEIGHTS values: unset, "h1:1", "h1:1,h2:<MaxWeight>",
\* "h0:1", "h1:0,h2:1"
EnvWeights ==
  {UnsetWeights,
   [h \in {"h1"} |-> 1],
   [h \in {"h1", "h2"} |-> IF h = "h1" THEN 1 ELSE MaxWeight],
   [h \in {"h0"} |-> 1],
   [h \in {"h1", "h2"} |-> IF h = "h1" THEN 0 ELSE 1]}

\* Largest N of a TARGET_GROUP_<N>_* variable that is set.
MaxGroups == 2

Environs ==
  [LOAD_BALANCING_ALGORITHM : Algorithms,
   groups : [1..MaxGroups -> [NAME : EnvNames, TARGETS : EnvTargets, WEIGHTS : EnvWeights]]]

\* config = Config(); load_balancer = LoadBalancer(config)
Construct ==
  /\ constructed = "no"
  /\ LET c == Config(environ)
     IN IF c.raised
        THEN /\ constructed' = "ValueError"
             /\ UNCHANGED <<algorithm, target_groups, hcVars, metricVars, probes>>
        ELSE /\ constructed' = "ok"
             /\ algorithm' = c.load_balancing_algorithm
             /\ target_groups' = c.target_groups
             /\ health_check' = [g \in DOMAIN c.target_groups |-> NoHealthCheck]
             /\ thread' = [g \in DOMAIN c.target_groups |-> 0]
             /\ active_connections' = ZeroMetrics(c.target_groups, 0)
             /\ ttfb_samples' = ZeroMetrics(c.target_groups, <<>>)
             /\ probes' = [g \in DOMAIN c.target_groups |-> EmptyDict]
  /\ selected' = NoCall
  /\ matched' = NoMatch
  /\ UNCHANGED <<session_ttl, rule_env, listener_rules, lbVars, now, bindings, picks,
                 reqVars, rewriteVars, environ, headerVars, threadVars, stickyVars, loopVars, callVars>>

\* The process before app.py runs Config().
InitConfig ==
  /\ environ \in Environs
  /\ constructed = "no"
  /\ algorithm = ""
  /\ session_ttl \in SessionTtls
  /\ target_groups = EmptyDict
  /\ rule_env = DefaultRuleEnv
  /\ listener_rules = parse_listener_rules(rule_env)
  /\ health_check = EmptyDict
  /\ thread = EmptyDict
  /\ round_robin_counters = EmptyDict
  /\ weighted_target_lists = EmptyDict
  /\ weighted_counters = EmptyDict
  /\ sticky_sessions = EmptyDict
  /\ active_connections = EmptyDict
  /\ ttfb_samples = EmptyDict
  /\ now = 0
  /\ selected = NoCall
  /\ matched = NoMatch
  /\ probes = EmptyDict
  /\ bindings = EmptyDict
  /\ picks = <<>>
  /\ handler = [r \in Reqs |-> IdleRequest]
  /\ rewritten = NoRewrite
  /\ header_convention_enable = FALSE
  /\ sent = NoHeaders
  /\ callers = [c \in Callers |-> IdleCaller]
  /\ tally = NoCalls
  /\ pick = NoPick
  /\ discarded = NoEntry
  /\ loop = [g \in GroupNames |-> NoLoop]
  /\ derived = NoDerivation
  /\ workers = [c \in Callers |-> IdleWorker]
  /\ sticky_lock = Free
  /\ lock = EmptyDict
  /\ loops = [g \in GroupNames |-> <<>>]

NextConfig == Construct

SpecConfig == InitConfig /\ [][NextConfig]_vars

\* ------------------------------------------------------ the request handler

\* proxy(), lines 24 to 53: rule lookup, group lookup, target selection and
\* rewriting, for a request to `path` of client_ip that reads the clock as
\* current_time_ms; the step named by `raises` raises an exception.
ProxyRoute(r, path, client_ip, current_time_ms, raises) ==
  /\ handler[r].pc = "idle"
  /\ \A q \in 1..(r - 1) : handler[q].pc # "idle"
  /\ LET out == route(path, client_ip, current_time_ms, raises)
     IN /\ handler' = [handler EXCEPT ![r] =
             [@ EXCEPT !.pc = IF out.response = NoResponse THEN "selected" ELSE "done",
                       !.rule = out.rule,
                       !.raised = out.raised,
                       !.group = IF out.response = NoResponse THEN out.group ELSE UnsetName,
                       !.target = IF out.response = NoResponse THEN out.target ELSE None,
                       !.response = out.response]]
        /\ round_robin_counters' = out.lb.round_robin_counters
        /\ weighted_target_lists' = out.lb.weighted_target_lists
        /\ weighted_counters' = out.lb.weighted_counters
        /\ sticky_sessions' = out.lb.sticky_sessions
        /\ now' = IF out.called THEN current_time_ms ELSE now
        /\ selected' = IF out.called
                       THEN [called |-> TRUE, group |-> out.group, client |-> client_ip,
                             time |-> current_time_ms, target |-> out.target]
                       ELSE NoCall
        /\ bindings' = IF out.called
                       THEN Bind(out.group, client_ip, current_time_ms,
                                 [target |-> out.target, hit |-> out.hit])
                       ELSE bindings
        /\ matched' = IF raises = "find_listener_rule" THEN NoMatch
                      ELSE [called |-> TRUE, path |-> path,
                            rule |-> find_listener_rule(listener_rules, path)]
  /\ UNCHANGED <<cfgVars, hcVars, metricVars, probes, picks, auxVars>>

\* forward_request up to session.request: the connection is counted and
\* the upstream request is sent.
Dispatch(r) ==
  /\ handler[r].pc = "selected"
  /\ LET g == handler[r].group
         t == handler[r].target
     IN /\ active_connections' =
             [active_connections EXCEPT ![g][t] = inc_connections(@)]
        /\ handler' = [handler EXCEPT ![r] =
             [@ EXCEPT !.pc = "forwarding", !.dispatched = TRUE]]
  /\ selected' = NoCall
  /\ matched' = NoMatch
  /\ UNCHANGED <<cfgVars, hcVars, lbVars, ttfb_samples, now, histVars>>

ForwardDispatch(r) ==
  /\ Dispatch(r)
  /\ UNCHANGED auxVars

\* The same step, with the headers it sends recorded.
ObservedDispatch(r, request_headers, client_ip) ==
  /\ Dispatch(r)
  /\ sent' = [called |-> TRUE, request |-> request_headers,
              headers |-> forward_headers(request_headers, header_convention_enable,
                                          client_ip)]
  /\ UNCHANGED <<rewriteVars, buildVars, header_convention_enable, threadVars, stickyVars, loopVars, callVars>>

\* The rest of forward_request: the upstream call comes to `outcome`, a
\* response's time to first byte is recorded, the response is built, and
\* the finally clause releases the connection.
ForwardComplete(r, outcome, ttfb) ==
  /\ handler[r].pc = "forwarding"
  /\ LET g == handler[r].group
         t == handler[r].target
     IN /\ ttfb_samples' =
             IF outcome.kind = "response"
             THEN [ttfb_samples EXCEPT ![g][t] = Append(@, ttfb)]
             ELSE ttfb_samples
        /\ active_connections' =
             [active_connections EXCEPT ![g][t] = dec_connections(@)]
        /\ handler' = [handler EXCEPT ![r] =
             [@ EXCEPT !.pc = after_request(outcome),
                       !.group = IF after_request(outcome) = "done" THEN UnsetName ELSE @,
                       !.target = IF after_request(outcome) = "done" THEN None ELSE @,
                       !.upstream = outcome,
                       !.response = forward_response(outcome)]]
  /\ selected' = NoCall
  /\ matched' = NoMatch
  /\ UNCHANGED <<cfgVars, hcVars, lbVars, now, histVars, auxVars>>

\* Request paths: "/a", "/z"
ProxyPaths == {<<"/", "a">>, <<"/", "z">>}

\* Rule tables: everything to the group; only "/a" to the group; "/a" to a
\* group that is not configured and the rest to the group.
ProxyRuleEnvs ==
  {DefaultRuleEnv,
   <<[path_prefix |-> <<"/", "a">>, path_rewrite |-> Unset, target_group |-> "backend"]>>,
   <<[path_prefix |-> <<"/", "a">>, path_rewrite |-> Unset, target_group |-> "missing"],
     [path_prefix |-> <<"/">>, path_rewrite |-> Unset, target_group |-> "backend"]>>}

\* TARGET_GROUP_<N>_TARGETS: two hosts, or one host that does not resolve.
ProxyTargetSpecs == {<<Spec1("h1"), Spec1("h2")>>, <<Spec1("h0")>>}

\* The requests come from one client.
ProxyClients == {"A"}

\* The clock readings of a request: no time has passed since the latest
\* reading, or every session has expired.
ProxyTimes == IF algorithm = "STICKY" THEN {now, MaxTime} ELSE {now}

\* Time to first byte of a response, in units of 0.0005 s.
TtfbValues == {1}

\* TARGET_GROUP_<N>_WEIGHTS: under WEIGHTED, the first host 1 and the
\* others MaxWeight.
ProxyWeights(alg, specs) ==
  IF alg = "WEIGHTED"
  THEN {Weights([h \in HostsOf(specs) |-> IF h = specs[1].hostname THEN 1 ELSE MaxWeight])}
  ELSE {NoWeights}

\* Config() and LoadBalancer(config) with the tables above.
ProxyConfig ==
  /\ algorithm \in Algorithms
  /\ session_ttl \in SessionTtls
  /\ \E specs \in ProxyTargetSpecs, enabled \in BOOLEAN :
       \E w \in ProxyWeights(algorithm, specs) :
         target_groups = [g \in GroupNames |->
            TargetGroup(specs, w, enabled, DefaultSucceedThreshold, DefaultFailureThreshold)]
  /\ rule_env \in ProxyRuleEnvs
  /\ listener_rules = parse_listener_rules(rule_env)
  /\ round_robin_counters = EmptyDict
  /\ weighted_target_lists = EmptyDict
  /\ weighted_counters = EmptyDict
  /\ sticky_sessions = EmptyDict
  /\ active_connections = ZeroMetrics(target_groups, 0)
  /\ ttfb_samples = ZeroMetrics(target_groups, <<>>)
  /\ now = 0
  /\ selected = NoCall
  /\ matched = NoMatch
  /\ probes = [g \in GroupNames |-> EmptyDict]
  /\ bindings = EmptyDict
  /\ picks = <<>>
  /\ handler = [r \in Reqs |-> IdleRequest]
  /\ rewritten = NoRewrite
  /\ environ = NoEnviron
  /\ constructed = "ok"
  /\ header_convention_enable = FALSE
  /\ sent = NoHeaders
  /\ callers = [c \in Callers |-> IdleCaller]
  /\ tally = NoCalls
  /\ pick = NoPick
  /\ discarded = NoEntry
  /\ loop = [g \in GroupNames |-> NoLoop]
  /\ derived = NoDerivation
  /\ workers = [c \in Callers |-> IdleWorker]
  /\ sticky_lock = Free
  /\ lock = EmptyDict
  /\ loops = [g \in GroupNames |-> <<>>]

\* The components as a caller that starts the checkers has them when the
\* requests arrive.
InitProxy ==
  /\ ProxyConfig
  /\ \E h \in [GroupNames -> UNION {SeqHealthChecks(target_groups[g]) : g \in GroupNames}] :
       /\ \A g \in GroupNames : h[g] \in SeqHealthChecks(target_groups[g])
       /\ health_check = [g \in GroupNames |-> h[g].hc]
       /\ thread = [g \in GroupNames |-> h[g].thread]

NextProxy ==
  \/ \E r \in Reqs, path \in ProxyPaths, c \in ProxyClients, t \in ProxyTimes, raises \in Raises :
       ProxyRoute(r, path, c, t, raises)
  \/ \E r \in Reqs : ForwardDispatch(r)
  \/ \E r \in Reqs, outcome \in UpstreamOutcomes, ttfb \in TtfbValues :
       ForwardComplete(r, outcome, ttfb)

SpecProxy == InitProxy /\ [][NextProxy]_vars

\* app.py: the module's initialisation (lines 11 to 15), then requests.
InitApp ==
  /\ ProxyConfig
  /\ health_check = [g \in GroupNames |-> NoHealthCheck]
  /\ thread = [g \in GroupNames |-> 0]

SpecApp == InitApp /\ [][NextProxy]_vars

\* ------------------------------------------- requests under least response time

\* The proxy under LRT with every earlier request finished: no connection
\* is counted, and the targets have the TTFB samples those requests left.
\* Samples left by earlier requests: none, one of 0.0005 s, one of 0.002 s.
StreamSamples == {<<>>, <<1>>, <<4>>}

\* The upstream answers 200 or the call times out.
StreamOutcomes ==
  {o \in UpstreamOutcomes : o.kind = "Timeout" \/ (o.kind = "response" /\ o.status = 200)}

InitStream ==
  /\ LrtComponents(StreamSamples)
  /\ active_connections = ZeroMetrics(target_groups, 0)

NextStream ==
  \/ \E r \in Reqs, path \in ProxyPaths : ProxyRoute(r, path, "A", now, "none")
  \/ \E r \in Reqs : ForwardDispatch(r)
  \/ \E r \in Reqs, outcome \in StreamOutcomes, ttfb \in TtfbValues :
       ForwardComplete(r, outcome, ttfb)

SpecStream == InitStream /\ [][NextStream]_vars

\* ------------------------------------------------------------- two groups

\* TARGET_GROUP_1_NAME and TARGET_GROUP_2_NAME
FrameGroups == {"backend", "api"}

\* Config() and LoadBalancer(config) with two target groups of two targets
\* each, and the state the checkers have reached when select_target is
\* called.
InitFrame ==
  /\ algorithm \in Algorithms
  /\ session_ttl \in SessionTtls
  /\ \E w \in ProxyWeights(algorithm, <<Spec1("h1"), Spec1("h2")>>) :
       target_groups = [g \in FrameGroups |->
          TargetGroup(<<Spec1("h1"), Spec1("h2")>>, w, TRUE,
                      DefaultSucceedThreshold, DefaultFailureThreshold)]
  /\ rule_env = DefaultRuleEnv
  /\ listener_rules = parse_listener_rules(rule_env)
  /\ \E h \in [FrameGroups -> UNION {SeqHealthChecks(target_groups[g]) : g \in FrameGroups}] :
       /\ health_check = [g \in FrameGroups |-> h[g].hc]
       /\ thread = [g \in FrameGroups |-> h[g].thread]
  /\ round_robin_counters = EmptyDict
  /\ weighted_target_lists = EmptyDict
  /\ weighted_counters = EmptyDict
  /\ sticky_sessions = EmptyDict
  /\ active_connections = ZeroMetrics(target_groups, 0)
  /\ ttfb_samples = ZeroMetrics(target_groups, <<>>)
  /\ now = 0
  /\ Quiet

NextFrame == \E g \in FrameGroups, t \in TimesRead : Select(g, "A", t)

SpecFrame == InitFrame /\ [][NextFrame]_vars

\* ---------------------------------------------------- the forwarded headers

\* The headers of a request: any of the names, each with one value.
RequestHeaders ==
  UNION {[names -> {<<"v">>}] : names \in SUBSET HeaderNames}

\* Round robin over two hosts with no checker, HEADER_CONVENTION_ENABLE
\* either way.
InitHeaders ==
  /\ algorithm = "ROUND_ROBIN"
  /\ session_ttl \in SessionTtls
  /\ target_groups = [g \in GroupNames |->
        TargetGroup(<<Spec1("h1"), Spec1("h2")>>, NoWeights, FALSE,
                    DefaultSucceedThreshold, DefaultFailureThreshold)]
  /\ rule_env = DefaultRuleEnv
  /\ listener_rules = parse_listener_rules(rule_env)
  /\ health_check = [g \in GroupNames |-> NoHealthCheck]
  /\ thread = [g \in GroupNames |-> 0]
  /\ round_robin_counters = EmptyDict
  /\ weighted_target_lists = EmptyDict
  /\ weighted_counters = EmptyDict
  /\ sticky_sessions = EmptyDict
  /\ active_connections = ZeroMetrics(target_groups, 0)
  /\ ttfb_samples = ZeroMetrics(target_groups, <<>>)
  /\ now = 0
  /\ selected = NoCall
  /\ matched = NoMatch
  /\ probes = [g \in GroupNames |-> EmptyDict]
  /\ bindings = EmptyDict
  /\ picks = <<>>
  /\ handler = [r \in Reqs |-> IdleRequest]
  /\ rewritten = NoRewrite
  /\ environ = NoEnviron
  /\ constructed = "ok"
  /\ header_convention_enable \in BOOLEAN
  /\ sent = NoHeaders
  /\ callers = [c \in Callers |-> IdleCaller]
  /\ tally = NoCalls
  /\ pick = NoPick
  /\ discarded = NoEntry
  /\ loop = [g \in GroupNames |-> NoLoop]
  /\ derived = NoDerivation
  /\ workers = [c \in Callers |-> IdleWorker]
  /\ sticky_lock = Free
  /\ lock = EmptyDict
  /\ loops = [g \in GroupNames |-> <<>>]

NextHeaders ==
  \/ \E r \in Reqs, path \in ProxyPaths, c \in ProxyClients :
       ProxyRoute(r, path, c, now, "none")
  \/ \E r \in Reqs, request_headers \in RequestHeaders, c \in ProxyClients :
       ObservedDispatch(r, request_headers, c)
  \/ \E r \in Reqs, outcome \in UpstreamOutcomes, ttfb \in TtfbValues :
       ForwardComplete(r, outcome, ttfb)

SpecHeaders == InitHeaders /\ [][NextHeaders]_vars

\* ------------------------------------------- concurrent select_target calls

\* Thread c's record after a step.
Step(c, rec) == callers' = [callers EXCEPT ![c] = rec]

\* The steps below leave everything but the threads, the round robin
\* counters, the tally and the pick unchanged.
ThreadFrame ==
  /\ selected' = NoCall
  /\ matched' = NoMatch
  /\ UNCHANGED <<cfgVars, hcVars, weighted_target_lists, weighted_counters,
                 sticky_sessions, metricVars, now, histVars, reqVars, rewriteVars,
                 buildVars, headerVars, stickyVars, loopVars, callVars>>

\* select_target is entered: get_healthy_targets returns self.targets at
\* once, or starts the list comprehension over the targets.
Enter(c, g) ==
  /\ callers[c].pc = "idle"
  /\ IF ~target_groups[g].health_check_enabled \/ ~health_check[g].exists
        \/ ~health_check[g].enabled
     THEN Step(c, [pc |-> "check", k |-> 0, targets |-> AllIdx(NumTargets(g)),
                   index |-> 0])
     ELSE Step(c, [pc |-> "filter", k |-> 1, targets |-> <<>>, index |-> 0])
  /\ pick' = NoPick
  /\ UNCHANGED round_robin_counters
  /\ ThreadFrame

EnterSelect(c, g) ==
  /\ Enter(c, g)
  /\ UNCHANGED tally

\* The same step, counted.
CountedEnter(c, g) ==
  /\ tally.started < MaxCalls
  /\ Enter(c, g)
  /\ tally' = [tally EXCEPT !.started = @ + 1]

\* One element of the list comprehension: the flag of target k is read.
FilterTarget(c, g) ==
  /\ callers[c].pc = "filter"
  /\ LET k == callers[c].k
         targets == callers[c].targets \o
                    (IF is_target_healthy(health_check[g], k) THEN <<k>> ELSE <<>>)
     IN Step(c, [callers[c] EXCEPT !.targets = targets, !.k = k + 1,
                                   !.pc = IF k = NumTargets(g) THEN "check" ELSE "filter"])
  /\ pick' = NoPick
  /\ UNCHANGED <<round_robin_counters, tally>>
  /\ ThreadFrame

\* if not targets: return None; then _round_robin's test
\* `group_name not in self.round_robin_counters`.
CheckCounter(c, g) ==
  /\ callers[c].pc = "check"
  /\ IF callers[c].targets = <<>>
     THEN /\ Step(c, IdleCaller)
          /\ pick' = [NoPick EXCEPT !.called = TRUE]
     ELSE /\ Step(c, [callers[c] EXCEPT !.pc = IF g \in DOMAIN round_robin_counters
                                                THEN "read" ELSE "init"])
          /\ pick' = NoPick
  /\ UNCHANGED <<round_robin_counters, tally>>
  /\ ThreadFrame

\* self.round_robin_counters[group_name] = 0
InitCounter(c, g) ==
  /\ callers[c].pc = "init"
  /\ round_robin_counters' = DictPut(round_robin_counters, g, 0)
  /\ Step(c, [callers[c] EXCEPT !.pc = "read"])
  /\ pick' = NoPick
  /\ UNCHANGED tally
  /\ ThreadFrame

\* index = self.round_robin_counters[group_name]
ReadCounter(c, g) ==
  /\ callers[c].pc = "read"
  /\ Step(c, [callers[c] EXCEPT !.pc = "write", !.index = round_robin_counters[g]])
  /\ pick' = NoPick
  /\ UNCHANGED <<round_robin_counters, tally>>
  /\ ThreadFrame

\* target = targets[index % len(targets)]; the counter is stored; return.
Store(c, g) ==
  /\ callers[c].pc = "write"
  /\ LET targets == callers[c].targets
         index == callers[c].index
         position == ReducedIndex(index, Len(targets))
     IN /\ round_robin_counters' =
             DictPut(round_robin_counters, g, NextIndex(index, Len(targets)))
        /\ pick' = [called |-> TRUE, view |-> targets, index |-> index,
                    position |-> position, target |-> ElementAt(targets, position)]
  /\ Step(c, IdleCaller)
  /\ ThreadFrame

WriteCounter(c, g) ==
  /\ Store(c, g)
  /\ UNCHANGED tally

\* The same step, with the return counted.
CountedWrite(c, g) ==
  /\ Store(c, g)
  /\ tally' = [tally EXCEPT !.returned =
                 DictPut(@, pick'.target, DictGet(@, pick'.target, 0) + 1)]

\* Round robin over two hosts whose checker, with both thresholds 1, is
\* started while requests arrive.
InitRace ==
  /\ algorithm = "ROUND_ROBIN"
  /\ session_ttl \in SessionTtls
  /\ target_groups = [g \in GroupNames |->
        TargetGroup(<<Spec1("h1"), Spec1("h2")>>, NoWeights, TRUE, 1, 1)]
  /\ rule_env = DefaultRuleEnv
  /\ listener_rules = parse_listener_rules(rule_env)
  /\ Fresh

NextRace ==
  \/ \E g \in GroupNames : StartHealthChecks(g)
  \/ \E g \in GroupNames, is_healthy \in BOOLEAN : Probe(g, is_healthy)
  \/ \E g \in GroupNames : Sleep(g)
  \/ \E c \in Callers, g \in GroupNames : EnterSelect(c, g)
  \/ \E c \in Callers, g \in GroupNames : FilterTarget(c, g)
  \/ \E c \in Callers, g \in GroupNames : CheckCounter(c, g)
  \/ \E c \in Callers, g \in GroupNames : InitCounter(c, g)
  \/ \E c \in Callers, g \in GroupNames : ReadCounter(c, g)
  \/ \E c \in Callers, g \in GroupNames : WriteCounter(c, g)

SpecRace == InitRace /\ [][NextRace]_vars

\* Round robin over two or three targets with no checker: the view is
\* stable.
InitConcurrent ==
  /\ algorithm = "ROUND_ROBIN"
  /\ session_ttl \in SessionTtls
  /\ \E specs \in {<<Spec1("h1"), Spec1("h2")>>, <<Spec1("h1"), Spec1("h3")>>} :
       target_groups = [g \in GroupNames |->
          TargetGroup(specs, NoWeights, FALSE,
                      DefaultSucceedThreshold, DefaultFailureThreshold)]
  /\ rule_env = DefaultRuleEnv
  /\ listener_rules = parse_listener_rules(rule_env)
  /\ Fresh

NextConcurrent ==
  \/ \E c \in Callers, g \in GroupNames : CountedEnter(c, g)
  \/ \E c \in Callers, g \in GroupNames : CheckCounter(c, g)
  \/ \E c \in Callers, g \in GroupNames : InitCounter(c, g)
  \/ \E c \in Callers, g \in GroupNames : ReadCounter(c, g)
  \/ \E c \in Callers, g \in GroupNames : CountedWrite(c, g)

SpecConcurrent == InitConcurrent /\ [][NextConcurrent]_vars

\* ------------------------------------------- request threads and their locks

\* proxy() under STICKY, statement by statement for each request thread,
\* with the two locks of the code: LoadBalancer.sticky_lock around the
\* lookup and the binding of _sticky, and Target._lock around each update
\* of a target's metrics. workers[c].pc is the statement thread c is at.

\* The rest of the state a step of a request thread leaves alone.
WorkerFrame ==
  /\ selected' = NoCall
  /\ matched' = NoMatch
  /\ UNCHANGED <<cfgVars, hcVars, weighted_target_lists, weighted_counters, histVars,
                 reqVars, rewriteVars, buildVars, headerVars, callers, pick,
                 stickyVars, loopVars, derived, loops>>

\* The sessions of group g.
GroupSessions(g) == DictGet(sticky_sessions, g, EmptyDict)

\* No thread is ever seen to hold a target's lock.
NoHolder(g, t) == Free

\* The holder of the lock of target t of g.
Holder(g, t) == DictGet(lock, <<g, t>>, Free)

\* The lock table with the lock of target t of g handed to `owner`.
Held(g, t, owner) ==
  IF owner = Free THEN DictDel(lock, <<g, t>>) ELSE DictPut(lock, <<g, t>>, owner)

\* select_target up to the with statement of _sticky: the healthy view,
\* the client address and the clock are read.
BeginRequest(c, g, client_ip, current_time_ms) ==
  /\ workers[c].pc = "idle"
  /\ tally.started < MaxCalls
  /\ get_healthy_targets(target_groups[g], health_check[g]) # <<>>
  /\ workers' = [workers EXCEPT ![c] =
        [pc |-> "acquire", client |-> client_ip, time |-> current_time_ms,
         targets |-> get_healthy_targets(target_groups[g], health_check[g]),
         target |-> None, n |-> 0,
         first |-> client_ip \notin DOMAIN GroupSessions(g),
         served |-> FALSE]]
  /\ now' = current_time_ms
  /\ tally' = [tally EXCEPT !.started = @ + 1]
  /\ UNCHANGED <<round_robin_counters, sticky_sessions, metricVars, sticky_lock, lock>>
  /\ WorkerFrame

\* with self.sticky_lock
AcquireSticky(c) ==
  /\ workers[c].pc = "acquire"
  /\ can_acquire(sticky_lock)
  /\ sticky_lock' = c
  /\ workers' = [workers EXCEPT ![c].pc = "lookup"]
  /\ UNCHANGED <<round_robin_counters, sticky_sessions, metricVars, now, tally, lock>>
  /\ WorkerFrame

\* _sticky, lines 217 to 242: the client's session is looked up; a valid
\* one is refreshed and its target returned, another one is deleted.
Lookup(c, g) ==
  /\ workers[c].pc = "lookup"
  /\ LET w == workers[c]
         group_sessions == GroupSessions(g)
         has_session == w.client \in DOMAIN group_sessions
         entry == group_sessions[w.client]
         target_still_available ==
           \E k \in 1..Len(w.targets) :
              SameAddress(target_groups[g], w.targets[k], entry.target)
         valid == /\ has_session
                  /\ session_valid(w.time, entry.expiration_time, target_still_available)
     IN IF valid
        THEN LET t == FirstSameAddress(target_groups[g], w.targets, entry.target)
             IN /\ sticky_sessions' =
                     StickyHit(g, LB, group_sessions, w.client, t,
                               entry.expiration_time).sticky_sessions
                /\ workers' = [workers EXCEPT ![c].pc = "release", ![c].target = t]
        ELSE /\ sticky_sessions' =
                  DictPut(sticky_sessions, g, DictDel(group_sessions, w.client))
             /\ workers' = [workers EXCEPT ![c].pc = "bind"]
  /\ UNCHANGED <<round_robin_counters, metricVars, now, tally, sticky_lock, lock>>
  /\ WorkerFrame

\* _sticky, lines 246 to 252: the next target of the round robin is bound
\* to the client until current_time_ms + session_ttl_ms.
BindSession(c, g) ==
  /\ workers[c].pc = "bind"
  /\ LET w == workers[c]
         fresh == round_robin(g, w.targets, LB)
     IN /\ round_robin_counters' = fresh.lb.round_robin_counters
        /\ sticky_sessions' =
             DictPut(sticky_sessions, g,
                     DictPut(GroupSessions(g), w.client,
                             [target |-> fresh.target,
                              expiration_time |-> NewExpiration(w.time)]))
        /\ workers' = [workers EXCEPT ![c].pc = "release", ![c].target = fresh.target]
  /\ UNCHANGED <<metricVars, now, tally, sticky_lock, lock>>
  /\ WorkerFrame

\* The with block of _sticky is left and select_target returns.
ReleaseSticky(c) ==
  /\ workers[c].pc = "release"
  /\ sticky_lock' = release(sticky_lock)
  /\ workers' = [workers EXCEPT ![c].pc = "inc", ![c].served = TRUE]
  /\ UNCHANGED <<round_robin_counters, sticky_sessions, metricVars, now, tally, lock>>
  /\ WorkerFrame

\* Target.inc_connections and dec_connections: with self._lock, and the
\* counter is read
EnterCounter(c, g, at, next) ==
  /\ workers[c].pc = at
  /\ can_acquire(Holder(g, workers[c].target))
  /\ lock' = Held(g, workers[c].target, c)
  /\ workers' = [workers EXCEPT ![c].pc = next,
                                ![c].n = active_connections[g][workers[c].target]]
  /\ UNCHANGED <<round_robin_counters, sticky_sessions, metricVars, now, tally, sticky_lock>>
  /\ WorkerFrame

\* forward_request: target.inc_connections() begins
IncAcquire(c, g) == EnterCounter(c, g, "inc", "inc_write")

\* self.active_connections += 1, and the lock is released; session.request
\* is called.
IncWrite(c, g) ==
  /\ workers[c].pc = "inc_write"
  /\ active_connections' =
       [active_connections EXCEPT ![g][workers[c].target] = inc_connections(workers[c].n)]
  /\ lock' = Held(g, workers[c].target, release(Holder(g, workers[c].target)))
  /\ workers' = [workers EXCEPT ![c].pc = "flight"]
  /\ UNCHANGED <<round_robin_counters, sticky_sessions, ttfb_samples, now, tally, sticky_lock>>
  /\ WorkerFrame

\* session.request returns the upstream's response, or raises.
Respond(c, raised) ==
  /\ workers[c].pc = "flight"
  /\ workers' = [workers EXCEPT ![c].pc = IF raised THEN "dec" ELSE "ttfb"]
  /\ UNCHANGED <<round_robin_counters, sticky_sessions, metricVars, now, tally,
                 sticky_lock, lock>>
  /\ WorkerFrame

\* target.record_ttfb(ttfb) begins: with self._lock
TtfbAcquire(c, g) ==
  /\ workers[c].pc = "ttfb"
  /\ can_acquire(Holder(g, workers[c].target))
  /\ lock' = Held(g, workers[c].target, c)
  /\ workers' = [workers EXCEPT ![c].pc = "ttfb_write"]
  /\ UNCHANGED <<round_robin_counters, sticky_sessions, metricVars, now, tally, sticky_lock>>
  /\ WorkerFrame

\* self._ttfb_samples.append(...), and the lock is released; the body of
\* the response is read next.
TtfbWrite(c, g, ttfb) ==
  /\ workers[c].pc = "ttfb_write"
  /\ ttfb_samples' =
       [ttfb_samples EXCEPT ![g][workers[c].target] = Append(@, ttfb)]
  /\ lock' = Held(g, workers[c].target, release(Holder(g, workers[c].target)))
  /\ workers' = [workers EXCEPT ![c].pc = "content"]
  /\ UNCHANGED <<round_robin_counters, sticky_sessions, active_connections, now, tally,
                 sticky_lock>>
  /\ WorkerFrame

\* response.content has been read and the response is built.
ReadContent(c) ==
  /\ workers[c].pc = "content"
  /\ workers' = [workers EXCEPT ![c].pc = "dec"]
  /\ UNCHANGED <<round_robin_counters, sticky_sessions, metricVars, now, tally,
                 sticky_lock, lock>>
  /\ WorkerFrame

\* finally: target.dec_connections() begins
DecAcquire(c, g) == EnterCounter(c, g, "dec", "dec_write")

\* if self.active_connections > 0: self.active_connections -= 1, the lock
\* is released and forward_request returns.
DecWrite(c, g) ==
  /\ workers[c].pc = "dec_write"
  /\ active_connections' =
       [active_connections EXCEPT ![g][workers[c].target] = dec_connections(workers[c].n)]
  /\ lock' = Held(g, workers[c].target, release(Holder(g, workers[c].target)))
  /\ workers' = [workers EXCEPT ![c].pc = "idle"]
  /\ UNCHANGED <<round_robin_counters, sticky_sessions, ttfb_samples, now, tally, sticky_lock>>
  /\ WorkerFrame

InitThreads ==
  /\ algorithm = "STICKY"
  /\ session_ttl \in SessionTtls
  /\ target_groups = [g \in GroupNames |->
        TargetGroup(<<Spec1("h1"), Spec1("h2")>>, NoWeights, FALSE,
                    DefaultSucceedThreshold, DefaultFailureThreshold)]
  /\ rule_env = DefaultRuleEnv
  /\ listener_rules = parse_listener_rules(rule_env)
  /\ Fresh

NextThreads ==
  \/ \E c \in Callers, g \in GroupNames, t \in TimesRead : BeginRequest(c, g, "A", t)
  \/ \E c \in Callers : AcquireSticky(c)
  \/ \E c \in Callers, g \in GroupNames : Lookup(c, g)
  \/ \E c \in Callers, g \in GroupNames : BindSession(c, g)
  \/ \E c \in Callers : ReleaseSticky(c)
  \/ \E c \in Callers, g \in GroupNames : IncAcquire(c, g)
  \/ \E c \in Callers, g \in GroupNames : IncWrite(c, g)
  \/ \E c \in Callers, raised \in BOOLEAN : Respond(c, raised)
  \/ \E c \in Callers, g \in GroupNames : TtfbAcquire(c, g)
  \/ \E c \in Callers, g \in GroupNames, ttfb \in TtfbValues : TtfbWrite(c, g, ttfb)
  \/ \E c \in Callers : ReadContent(c)
  \/ \E c \in Callers, g \in GroupNames : DecAcquire(c, g)
  \/ \E c \in Callers, g \in GroupNames : DecWrite(c, g)

SpecThreads == InitThreads /\ [][NextThreads]_vars

\* ------------------------------------------------- the checker's lifecycle

\* TargetGroup.stop_health_checks: HealthCheck.stop() clears `running`.
StopHealthChecks(g) ==
  /\ health_check[g].exists
  /\ health_check' = [health_check EXCEPT ![g].running = FALSE]
  /\ selected' = NoCall
  /\ matched' = NoMatch
  /\ UNCHANGED <<cfgVars, thread, lbVars, metricVars, now, histVars, reqVars, auxVars>>

InitLifecycle ==
  /\ algorithm = "ROUND_ROBIN"
  /\ session_ttl \in SessionTtls
  /\ \E enabled \in BOOLEAN, st \in Thresholds, ft \in Thresholds :
       target_groups = [g \in GroupNames |->
          TargetGroup(<<Spec1("h1"), Spec1("h2")>>, NoWeights, enabled, st, ft)]
  /\ rule_env = DefaultRuleEnv
  /\ listener_rules = parse_listener_rules(rule_env)
  /\ Fresh

NextLifecycle ==
  \/ \E g \in GroupNames : StartHealthChecks(g)
  \/ \E g \in GroupNames, is_healthy \in BOOLEAN : Probe(g, is_healthy)
  \/ \E g \in GroupNames : Sleep(g)
  \/ \E g \in GroupNames : StopHealthChecks(g)

SpecLifecycle == InitLifecycle /\ [][NextLifecycle]_vars

\* ---------------------------------------------------- the checker's shutdown

\* _health_check_loop statement by statement, so that stop() can fall
\* between any two of them. loop[g].pc is the statement the thread is at:
\* "while" (the test of the while loop), "for" (the head of the for loop
\* and the test in its body), "probe" (_check_target_health is running),
\* "sleep" (time.sleep) and "exited" (the function has returned);
\* thread[g] is the position of the for loop.

\* The thread starts at the while test.
StartLoop(g) ==
  /\ StartThread(g)
  /\ loop' = [loop EXCEPT ![g].pc = "while"]
  /\ UNCHANGED <<rewriteVars, buildVars, headerVars, threadVars, stickyVars, callVars>>

\* while self.running
WhileTest(g) ==
  /\ loop[g].pc = "while"
  /\ IF health_check[g].running
     THEN /\ loop' = [loop EXCEPT ![g].pc = "for"]
          /\ thread' = [thread EXCEPT ![g] = 1]
     ELSE /\ loop' = [loop EXCEPT ![g].pc = "exited", ![g].observed = TRUE]
          /\ UNCHANGED thread
  /\ selected' = NoCall
  /\ matched' = NoMatch
  /\ UNCHANGED <<cfgVars, health_check, lbVars, metricVars, now, histVars, reqVars,
                 rewriteVars, buildVars, headerVars, threadVars, stickyVars, callVars>>

\* for target in targets: if not self.running: break; then
\* _check_target_health begins: the target's record is there when the
\* probe is sent.
ForTest(g) ==
  /\ loop[g].pc = "for"
  /\ IF thread[g] > NumTargets(g)
     THEN /\ loop' = [loop EXCEPT ![g].pc = "sleep"]
          /\ UNCHANGED health_check
     ELSE IF stop_seen(health_check[g].running)
     THEN /\ loop' = [loop EXCEPT ![g].pc = "sleep", ![g].observed = TRUE]
          /\ UNCHANGED health_check
     ELSE /\ loop' = [loop EXCEPT ![g].pc = "probe"]
          /\ health_check' = [health_check EXCEPT ![g].target_health =
                                 begin_check(@, thread[g])]
  /\ selected' = NoCall
  /\ matched' = NoMatch
  /\ UNCHANGED <<cfgVars, thread, lbVars, metricVars, now, histVars, reqVars,
                 rewriteVars, buildVars, headerVars, threadVars, stickyVars, callVars>>

\* self._check_target_health(target): the probe answers is_healthy, whether
\* or not stop() has been called since the test.
CheckTarget(g, is_healthy) ==
  /\ loop[g].pc = "probe"
  /\ BelowCap(health_check[g], thread[g], is_healthy)
  /\ health_check' = [health_check EXCEPT ![g].target_health =
                         check_target_health(health_check[g], thread[g], is_healthy)]
  /\ thread' = [thread EXCEPT ![g] = @ + 1]
  /\ loop' = [loop EXCEPT ![g].pc = "for",
                          ![g].late = IF health_check[g].running THEN @ ELSE @ + 1]
  /\ selected' = NoCall
  /\ matched' = NoMatch
  /\ UNCHANGED <<cfgVars, lbVars, metricVars, now, histVars, reqVars,
                 rewriteVars, buildVars, headerVars, threadVars, stickyVars, callVars>>

\* time.sleep(self.interval), after the for loop or its break
SleepRound(g) ==
  /\ loop[g].pc = "sleep"
  /\ loop' = [loop EXCEPT ![g].pc = "while"]
  /\ selected' = NoCall
  /\ matched' = NoMatch
  /\ UNCHANGED <<cfgVars, hcVars, lbVars, metricVars, now, histVars, reqVars,
                 rewriteVars, buildVars, headerVars, threadVars, stickyVars, callVars>>

\* The steps of the checker thread of g.
LoopStep(g) ==
  \/ WhileTest(g)
  \/ ForTest(g)
  \/ \E is_healthy \in BOOLEAN : CheckTarget(g, is_healthy)
  \/ SleepRound(g)

InitShutdown ==
  /\ algorithm = "ROUND_ROBIN"
  /\ session_ttl \in SessionTtls
  /\ \E st \in Thresholds, ft \in Thresholds :
       target_groups = [g \in GroupNames |->
          TargetGroup(<<Spec1("h1"), Spec1("h2")>>, NoWeights, TRUE, st, ft)]
  /\ rule_env = DefaultRuleEnv
  /\ listener_rules = parse_listener_rules(rule_env)
  /\ Fresh

NextShutdown ==
  \/ \E g \in GroupNames : StartLoop(g)
  \/ \E g \in GroupNames : WhileTest(g)
  \/ \E g \in GroupNames : ForTest(g)
  \/ \E g \in GroupNames, is_healthy \in BOOLEAN : CheckTarget(g, is_healthy)
  \/ \E g \in GroupNames : SleepRound(g)
  \/ \E g \in GroupNames : StopHealthChecks(g)

SpecShutdown == InitShutdown /\ [][NextShutdown]_vars

\* The checker is a thread of its own (threading.Thread, daemon): the
\* interpreter keeps scheduling it, the probe is bounded by its timeout and
\* the sleep by the interval, so a step of the loop that stays possible is
\* taken.
SpecShutdownFair == SpecShutdown /\ \A g \in GroupNames : WF_vars(LoopStep(g))

\* ------------------------------------------- the checker stopped and started

\* HealthCheck.start() and stop() called on the HealthCheck itself, any
\* number of times, with every thread start() has created: loops[g][k] is
\* the k-th of them, at statement pc of _health_check_loop (as in the
\* section above) and at position i of its for loop.

\* The rest of the state a step of the checker leaves alone.
CheckerFrame ==
  /\ selected' = NoCall
  /\ matched' = NoMatch
  /\ UNCHANGED <<cfgVars, thread, lbVars, metricVars, now, histVars, reqVars,
                 rewriteVars, buildVars, headerVars, threadVars, stickyVars, loopVars,
                 derived, lockVars>>

\* threading.Thread(target=self._health_check_loop).start()
NewLoop == [pc |-> "while", i |-> 1]

\* TargetGroup.start_health_checks: the HealthCheck is created and started.
CreateChecker(g) ==
  /\ target_groups[g].health_check_enabled
  /\ ~health_check[g].exists
  /\ health_check' = [health_check EXCEPT ![g] = NewHealthCheck(target_groups[g])]
  /\ loops' = [loops EXCEPT ![g] = <<NewLoop>>]
  /\ CheckerFrame

\* HealthCheck.start(): returns if not enabled or already running, else
\* sets running and starts a new thread.
Start(g) ==
  /\ health_check[g].exists
  /\ health_check[g].enabled
  /\ ~health_check[g].running
  /\ Len(loops[g]) < MaxStarts
  /\ health_check' = [health_check EXCEPT ![g].running = TRUE]
  /\ loops' = [loops EXCEPT ![g] = Append(@, NewLoop)]
  /\ CheckerFrame

\* HealthCheck.stop(): running is cleared; the join returns when the
\* thread has ended or after 5 s.
Stop(g) ==
  /\ health_check[g].exists
  /\ health_check[g].running
  /\ health_check' = [health_check EXCEPT ![g].running = FALSE]
  /\ UNCHANGED loops
  /\ CheckerFrame

\* while self.running, in thread k
RunWhile(g, k) ==
  /\ k \in DOMAIN loops[g]
  /\ loops[g][k].pc = "while"
  /\ loops' = [loops EXCEPT ![g][k] =
        IF health_check[g].running THEN [pc |-> "for", i |-> 1]
        ELSE [pc |-> "exited", i |-> @.i]]
  /\ UNCHANGED health_check
  /\ CheckerFrame

\* for target in targets: if not self.running: break; then
\* _check_target_health begins, in thread k
RunFor(g, k) ==
  /\ k \in DOMAIN loops[g]
  /\ loops[g][k].pc = "for"
  /\ IF loops[g][k].i > NumTargets(g) \/ stop_seen(health_check[g].running)
     THEN /\ loops' = [loops EXCEPT ![g][k].pc = "sleep"]
          /\ UNCHANGED health_check
     ELSE /\ loops' = [loops EXCEPT ![g][k].pc = "probe"]
          /\ health_check' = [health_check EXCEPT ![g].target_health =
                                 begin_check(@, loops[g][k].i)]
  /\ CheckerFrame

\* self._check_target_health(target) ends with is_healthy, in thread k
RunProbe(g, k, is_healthy) ==
  /\ k \in DOMAIN loops[g]
  /\ loops[g][k].pc = "probe"
  /\ BelowCap(health_check[g], loops[g][k].i, is_healthy)
  /\ health_check' = [health_check EXCEPT ![g].target_health =
                         check_target_health(health_check[g], loops[g][k].i, is_healthy)]
  /\ loops' = [loops EXCEPT ![g][k] = [pc |-> "for", i |-> @.i + 1]]
  /\ CheckerFrame

\* time.sleep(self.interval), in thread k
RunSleep(g, k) ==
  /\ k \in DOMAIN loops[g]
  /\ loops[g][k].pc = "sleep"
  /\ loops' = [loops EXCEPT ![g][k].pc = "while"]
  /\ UNCHANGED health_check
  /\ CheckerFrame

InitRestart ==
  /\ algorithm = "ROUND_ROBIN"
  /\ session_ttl \in SessionTtls
  /\ \E st \in Thresholds, ft \in Thresholds :
       target_groups = [g \in GroupNames |->
          TargetGroup(<<Spec1("h1"), Spec1("h2")>>, NoWeights, TRUE, st, ft)]
  /\ rule_env = DefaultRuleEnv
  /\ listener_rules = parse_listener_rules(rule_env)
  /\ Fresh

NextRestart ==
  \/ \E g \in GroupNames : CreateChecker(g)
  \/ \E g \in GroupNames : Start(g)
  \/ \E g \in GroupNames : Stop(g)
  \/ \E g \in GroupNames, k \in 1..MaxStarts : RunWhile(g, k)
  \/ \E g \in GroupNames, k \in 1..MaxStarts : RunFor(g, k)
  \/ \E g \in GroupNames, k \in 1..MaxStarts, is_healthy \in BOOLEAN :
       RunProbe(g, k, is_healthy)
  \/ \E g \in GroupNames, k \in 1..MaxStarts : RunSleep(g, k)

SpecRestart == InitRestart /\ [][NextRestart]_vars

\* ------------------------------------------------------------------ claims

\* The health flag of target i of group g is currently false.
FlagFalse(g, i) ==
  /\ i \in DOMAIN health_check[g].target_health
  /\ ~health_check[g].target_health[i].healthy

\* The checker of group g is enabled and has been started.
CheckerStarted(g) ==
  target_groups[g].health_check_enabled /\ health_check[g].exists

\* C1: under every algorithm, in a group whose health checker is enabled and
\* started, select_target never returns a target whose health flag is false.
C1_NeverSelectsUnhealthy ==
  \A g \in GroupNames :
    (selected.called /\ selected.group = g /\ selected.target # None /\ CheckerStarted(g))
      => ~FlagFalse(g, selected.target)

\* C2: find_listener_rule(path) returns, among the configured rules whose
\* prefix is a prefix of path, one of maximum prefix length and, among those,
\* the one with the lowest LISTENER_RULE index; it returns no rule only when
\* no configured prefix matches.  A rule is configured when its index is
\* below the first index with no PATH_PREFIX and it names a target group.
ConfiguredRules ==
  {i \in 1..Len(rule_env) :
     /\ \A j \in 1..i : rule_env[j].path_prefix # Unset
     /\ rule_env[i].target_group # UnsetName}

MatchingRules(path) ==
  {i \in ConfiguredRules : startswith(path, rule_env[i].path_prefix)}

C2_LongestPrefixEarliestWins ==
  matched.called =>
    LET M == MatchingRules(matched.path)
        r == matched.rule
    IN IF M = {} THEN r = NoRule
       ELSE /\ r.index \in M
            /\ r.path_prefix = rule_env[r.index].path_prefix
            /\ r.target_group = rule_env[r.index].target_group
            /\ \A j \in M :
                 /\ Len(rule_env[j].path_prefix) <= Len(r.path_prefix)
                 /\ Len(rule_env[j].path_prefix) = Len(r.path_prefix) => r.index <= j

\* C2 happens: three configured rules match the path, the two longest have
\* the same prefix, and the earlier of the two is returned.
C2_Witness ==
  /\ matched.called
  /\ Cardinality(MatchingRules(matched.path)) = 3
  /\ matched.rule.index = 2
  /\ rule_env[3].path_prefix = rule_env[2].path_prefix
  /\ Len(rule_env[1].path_prefix) < Len(rule_env[2].path_prefix)

\* The healthy view select_target reads for group g.
View(g) == get_healthy_targets(target_groups[g], health_check[g])

\* The targets returned by the recorded calls, in order.
PickedTargets == [k \in 1..Len(picks) |-> picks[k].target]

\* How often target i was returned by the recorded calls a..b.
Returned(i, a, b) == Cardinality({k \in a..b : picks[k].target = i})

\* The members of a list of target indices.
Members(list) == {list[k] : k \in 1..Len(list)}

\* C3: ROUND_ROBIN, a fixed healthy view of n targets, sequential calls on a
\* fresh LoadBalancer: the i-th call (from 0) returns the view's element
\* i mod n, so that over k*n calls each target is returned exactly k times.
C3_RoundRobinOrder ==
  algorithm = "ROUND_ROBIN" =>
    \A g \in GroupNames :
      LET view == View(g)
          n == Len(view)
      IN n > 0 =>
           /\ \A i \in 0..(Len(picks) - 1) : picks[i + 1].target = view[(i % n) + 1]
           /\ \A k \in 1..Len(picks) :
                Len(picks) = k * n => \A t \in Members(view) : Returned(t, 1, k * n) = k

\* C3 happens: three targets in the view, six calls, T1,T2,T3,T1,T2,T3.
C3_Witness ==
  /\ algorithm = "ROUND_ROBIN"
  /\ View("backend") = <<1, 2, 3>>
  /\ PickedTargets = <<1, 2, 3, 1, 2, 3>>

\* The sum of the weights of the targets in a set of target indices of group g.
RECURSIVE SumWeights(_, _)
SumWeights(g, set) ==
  IF set = {} THEN 0
  ELSE LET i == CHOOSE x \in set : TRUE
       IN target_groups[g].targets[i].weight + SumWeights(g, set \ {i})

\* C4: WEIGHTED, sequential calls, a stable healthy set: over k * (sum of the
\* weights of the healthy set) consecutive calls each target of the healthy
\* set is returned exactly k * weight times.
C4_WeightedDistribution ==
  algorithm = "WEIGHTED" =>
    \A g \in GroupNames :
      LET healthy == Members(View(g))
          total == SumWeights(g, healthy)
      IN healthy # {} =>
           \A a \in 1..Len(picks), k \in 1..Len(picks) :
             (a + k * total - 1 <= Len(picks)) =>
               \A t \in healthy :
                 Returned(t, a, a + k * total - 1) = k * target_groups[g].targets[t].weight

\* The target at position p (from 1) of the list in which each target of
\* group g, in configuration order, is repeated weight times.
ExpansionAt(g, p) ==
  CHOOSE i \in 1..Len(target_groups[g].targets) :
    /\ SumWeights(g, 1..(i - 1)) < p
    /\ p <= SumWeights(g, 1..i)

\* C5: WEIGHTED, all targets healthy, sequential calls on a fresh
\* LoadBalancer: the j-th call returns element j mod L of the expansion in
\* which each target, in configuration order, is repeated weight times.
C5_WeightedOrder ==
  algorithm = "WEIGHTED" =>
    \A g \in GroupNames :
      LET n == Len(target_groups[g].targets)
          L == SumWeights(g, 1..n)
      IN (n > 0 /\ View(g) = AllIdx(n)) =>
           \A j \in 0..(Len(picks) - 1) : picks[j + 1].target = ExpansionAt(g, (j % L) + 1)

\* C5 happens: weights {h1: 1, h2: 2}, six calls, h1,h2,h2,h1,h2,h2.
C5_Witness ==
  /\ algorithm = "WEIGHTED"
  /\ target_groups["backend"].weights_provided
  /\ Len(target_groups["backend"].targets) = 2
  /\ target_groups["backend"].targets[1].weight = 1
  /\ target_groups["backend"].targets[2].weight = 2
  /\ View("backend") = <<1, 2>>
  /\ PickedTargets = <<1, 2, 2, 1, 2, 2>>

\* The scenario of C7: STICKY, targets [T1, T2] both in the view, a fresh
\* LoadBalancer; requests from A, from B, from A within the TTL of A's
\* first request, and from A once the clock has passed that TTL.
C7_Scenario ==
  /\ algorithm = "STICKY"
  /\ Len(target_groups["backend"].targets) = 2
  /\ View("backend") = <<1, 2>>
  /\ Len(picks) = 4
  /\ picks[1].client = "A" /\ picks[2].client = "B"
  /\ picks[3].client = "A" /\ picks[4].client = "A"
  /\ picks[3].time < picks[1].time + session_ttl
  /\ picks[4].time >= picks[1].time + session_ttl

\* C7 as stated: the four requests return T1, T2, T1 and then T2.
C7_StickyScenarioAsStated == C7_Scenario => PickedTargets = <<1, 2, 1, 2>>

\* C7 amended: the four requests return T1, T2, T1 and then T1: after two
\* round-robin picks over two targets the counter is back at the first.
C7_StickyScenario == C7_Scenario => PickedTargets = <<1, 2, 1, 1>>

\* C7 happens: the four requests of the scenario were made.
C7_Witness == C7_Scenario /\ picks[4].target = 1 /\ picks[3].time > picks[2].time

\* The binding of client c in group g: the target and the clock of the
\* latest request of c that created a session.
Bound(g, c) == g \in DOMAIN bindings /\ c \in DOMAIN bindings[g]

\* C6: STICKY: once client c is bound to target T at time t0, every later
\* request of c at a time before t0 + SESSION_TTL returns T, whatever the
\* other clients requested in between, provided T is in the healthy view at
\* that request.
C6_StickyAffinity ==
  [][\A g \in GroupNames, c \in Clients :
       (/\ algorithm = "STICKY"
        /\ Bound(g, c)
        /\ selected'.called /\ selected'.group = g /\ selected'.client = c
        /\ selected'.time < bindings[g][c].time + session_ttl
        /\ bindings[g][c].target \in Members(View(g)))
       => /\ selected'.target # None
          /\ SameAddress(target_groups[g], selected'.target, bindings[g][c].target)]_vars

\* C6 happens: A was bound, B was bound to the other target later, and the
\* latest request, from A within the TTL, was answered from A's session.
C6_Witness ==
  /\ algorithm = "STICKY"
  /\ Bound("backend", "A") /\ Bound("backend", "B")
  /\ selected.called /\ selected.client = "A"
  /\ bindings["backend"]["A"].time < bindings["backend"]["B"].time
  /\ bindings["backend"]["B"].time <= selected.time
  /\ selected.time < bindings["backend"]["A"].time + session_ttl
  /\ bindings["backend"]["B"].target # bindings["backend"]["A"].target
  /\ selected.target = bindings["backend"]["A"].target

\* The recorded run of equal probe outcomes of target i of group g.
Probed(g, i) == i \in DOMAIN probes[g]

\* C8: a target that was healthy when a run of consecutive failed probes
\* began has its flag false once the run is failure_threshold long and still
\* true while the run is shorter; after a successful probe
\* consecutive_failures is 0.
C8_FailureThreshold ==
  \A g \in GroupNames : \A i \in DOMAIN probes[g] :
    LET p == probes[g][i]
        info == health_check[g].target_health[i]
        ft == health_check[g].failure_threshold
    IN /\ (~p.ok /\ p.start_healthy /\ p.run >= ft) => ~info.healthy
       /\ (~p.ok /\ p.start_healthy /\ p.run < ft) => info.healthy
       /\ (~p.ok /\ p.start_healthy) => info.consecutive_failures = p.run
       /\ p.ok => info.consecutive_failures = 0

\* C8 happens: failure_threshold is 2 and a healthy target has just failed
\* its second probe in a row.
C8_Witness ==
  /\ health_check["backend"].failure_threshold = 2
  /\ Probed("backend", 1)
  /\ ~probes["backend"][1].ok /\ probes["backend"][1].start_healthy
  /\ probes["backend"][1].run = 2
  /\ ~health_check["backend"].target_health[1].healthy

\* C9: a target that was unhealthy when a run of consecutive successful
\* probes began has its flag true once the run is succeed_threshold long and
\* still false while the run is shorter; after a failed probe
\* consecutive_successes is 0.
C9_SucceedThreshold ==
  \A g \in GroupNames : \A i \in DOMAIN probes[g] :
    LET p == probes[g][i]
        info == health_check[g].target_health[i]
        st == health_check[g].succeed_threshold
    IN /\ (p.ok /\ ~p.start_healthy /\ p.run >= st) => info.healthy
       /\ (p.ok /\ ~p.start_healthy /\ p.run < st) => ~info.healthy
       /\ (p.ok /\ ~p.start_healthy) => info.consecutive_successes = p.run
       /\ ~p.ok => info.consecutive_successes = 0

\* C9 happens: succeed_threshold is 2 and an unhealthy target has just
\* passed its second probe in a row.
C9_Witness ==
  /\ health_check["backend"].succeed_threshold = 2
  /\ Probed("backend", 1)
  /\ probes["backend"][1].ok /\ ~probes["backend"][1].start_healthy
  /\ probes["backend"][1].run = 2
  /\ health_check["backend"].target_health[1].healthy

\* C10: with the checker running, a target that has failed failure_threshold
\* probes in a row and is still failing receives no selection.
C10_NoSelectionWhileFailing ==
  \A g \in GroupNames :
    (selected.called /\ selected.group = g /\ selected.target # None /\ CheckerStarted(g)
       /\ health_check[g].running
       /\ selected.target \in DOMAIN health_check[g].target_health)
    => health_check[g].target_health[selected.target].consecutive_failures
         < health_check[g].failure_threshold

\* The requests whose forward_request is running on target i of group g.
InFlight(g, i) ==
  {r \in Reqs : handler[r].pc = "forwarding" /\ handler[r].group = g /\ handler[r].target = i}

\* Request r has left forward_request.
Forwarded(r) == handler[r].pc = "done" /\ handler[r].dispatched

\* C11: active_connections of every target is never negative and counts
\* exactly the requests forward_request is running for on that target: each
\* request that completes, however the upstream call ended, has taken back
\* the one connection it added when it was dispatched.
C11_ActiveConnectionsBalanced ==
  \A g \in GroupNames : \A i \in 1..Len(target_groups[g].targets) :
    /\ active_connections[g][i] >= 0
    /\ active_connections[g][i] = Cardinality(InFlight(g, i))

\* C11 happens: one request has completed on a timeout and one on an
\* upstream response, and every counter is back at 0.
C11_Witness ==
  /\ Forwarded(1) /\ handler[1].upstream.kind = "Timeout"
  /\ Forwarded(2) /\ handler[2].upstream.kind = "response"
  /\ \A i \in 1..Len(target_groups["backend"].targets) : active_connections["backend"][i] = 0

\* C12: a forward_request whose upstream call timed out returns status 504
\* with an empty body; one whose connection failed, or that raised any other
\* exception, returns status 502 with an empty body; no exception leaves it.
C12_TransportErrors ==
  \A r \in Reqs :
    Forwarded(r) =>
      /\ handler[r].upstream.kind = "Timeout" =>
           handler[r].response = [origin |-> "proxy", status |-> 504, body |-> ""]
      /\ handler[r].upstream.kind \in {"ConnectionError", "Exception"} =>
           handler[r].response = [origin |-> "proxy", status |-> 502, body |-> ""]
      /\ handler[r].raised = "none"

\* C12 happens: one request timed out and another could not connect.
C12_Witness ==
  /\ Forwarded(1) /\ handler[1].upstream.kind = "Timeout" /\ handler[1].response.status = 504
  /\ Forwarded(2) /\ handler[2].upstream.kind = "ConnectionError"
  /\ handler[2].response.status = 502

\* C13: whenever the upstream returned a response, whatever its status, the
\* client receives that status and that body, not an error response of the
\* proxy.
C13_UpstreamPassThrough ==
  \A r \in Reqs :
    (Forwarded(r) /\ handler[r].upstream.kind = "response") =>
      /\ handler[r].response.origin = "upstream"
      /\ handler[r].response.status = handler[r].upstream.status
      /\ handler[r].response.body = handler[r].upstream.body

\* C13 happens: the upstream answered one request 500 and another 418.
C13_Witness ==
  /\ Forwarded(1) /\ handler[1].upstream.kind = "response" /\ handler[1].upstream.status = 500
  /\ handler[1].response.status = 500
  /\ Forwarded(2) /\ handler[2].upstream.kind = "response" /\ handler[2].upstream.status = 418
  /\ handler[2].response.status = 418

\* Request r enters proxy() in this step.
Enters(r) == handler[r].pc = "idle" /\ handler'[r].pc # "idle"

\* The response is an error response of the proxy with this status.
ProxyError(response, status_code) ==
  response = [origin |-> "proxy", status |-> status_code, body |-> ""]

\* C14: a request whose path no configured rule's prefix matches is answered
\* 404 with an empty body; no target is selected, no selection counter or
\* sticky entry changes, and nothing is sent upstream.
C14_NoRuleIs404 ==
  [][\A r \in Reqs :
       (Enters(r) /\ matched'.called /\ MatchingRules(matched'.path) = {})
       => /\ handler'[r].pc = "done"
          /\ ProxyError(handler'[r].response, 404)
          /\ ~handler'[r].dispatched
          /\ ~selected'.called
          /\ UNCHANGED lbVars]_vars

\* C14 happens: the first request was routed and selected a target, the
\* second matched no rule and was answered 404.
C14_Witness ==
  /\ handler[1].pc = "selected"
  /\ round_robin_counters # EmptyDict
  /\ matched.called /\ MatchingRules(matched.path) = {}
  /\ handler[2].pc = "done" /\ handler[2].response.status = 404

\* The group the rule with this LISTENER_RULE index names.
GroupOfRule(index) == rule_env[index].target_group

\* C15: a request whose rule names a group that is not configured, or a
\* group without targets, is answered 503 with an empty body and nothing is
\* sent upstream.
C15_NoGroupOrNoTargetsIs503 ==
  \A r \in Reqs :
    (/\ handler[r].pc # "idle"
     /\ handler[r].rule # 0
     /\ handler[r].raised = "none"
     /\ \/ GroupOfRule(handler[r].rule) \notin DOMAIN target_groups
        \/ target_groups[GroupOfRule(handler[r].rule)].targets = <<>>)
    => /\ handler[r].pc = "done"
       /\ ProxyError(handler[r].response, 503)
       /\ ~handler[r].dispatched

\* C15 happens: the first request's rule names a group that is not
\* configured, the second's a group whose only host does not resolve.
C15_Witness ==
  /\ handler[1].pc = "done" /\ handler[1].rule # 0
  /\ GroupOfRule(handler[1].rule) \notin DOMAIN target_groups
  /\ handler[1].response.status = 503
  /\ handler[2].pc = "done" /\ handler[2].rule # 0
  /\ GroupOfRule(handler[2].rule) \in DOMAIN target_groups
  /\ target_groups[GroupOfRule(handler[2].rule)].targets = <<>>
  /\ handler[2].response.status = 503

\* Group g has targets, its checker is enabled and started, and the health
\* flag of every target is false.
AllUnhealthy(g) ==
  /\ g \in DOMAIN target_groups
  /\ target_groups[g].targets # <<>>
  /\ CheckerStarted(g)
  /\ \A i \in 1..Len(target_groups[g].targets) : FlagFalse(g, i)

\* C16: under every algorithm, a request whose group has only unhealthy
\* targets gets no target from select_target and is answered 503 with an
\* empty body; nothing is sent upstream and no selection counter or sticky
\* entry changes.
C16_AllUnhealthyIs503 ==
  [][\A r \in Reqs :
       (/\ Enters(r)
        /\ handler'[r].rule # 0
        /\ handler'[r].raised = "none"
        /\ AllUnhealthy(GroupOfRule(handler'[r].rule)))
       => /\ selected'.called /\ selected'.target = None
          /\ handler'[r].pc = "done"
          /\ ProxyError(handler'[r].response, 503)
          /\ ~handler'[r].dispatched
          /\ UNCHANGED lbVars]_vars

\* C16 happens: WEIGHTED, both targets unhealthy, the request was answered 503.
C16_Witness ==
  /\ algorithm = "WEIGHTED"
  /\ AllUnhealthy("backend")
  /\ Len(target_groups["backend"].targets) = 2
  /\ selected.called /\ selected.target = None
  /\ handler[1].pc = "done" /\ handler[1].rule # 0 /\ handler[1].response.status = 503

\* C17: a request during which rule lookup, group lookup, target selection
\* or rewriting raised an exception is answered 502 with an empty body; the
\* exception does not leave proxy().
C17_ExceptionsBecome502 ==
  \A r \in Reqs :
    /\ handler[r].raised # "none" =>
         handler[r].pc = "done" /\ ProxyError(handler[r].response, 502)
    /\ handler[r].response.origin # "exception"

\* C17 happens: rule lookup raised in one request, rewriting in another
\* after its target had been selected.
C17_Witness ==
  /\ handler[1].raised = "find_listener_rule" /\ handler[1].response.status = 502
  /\ handler[2].raised = "rewrite_uri" /\ handler[2].response.status = 502
  /\ round_robin_counters # EmptyDict

\* The statuses of the proxy's own responses.
ProxyStatuses == {404, 502, 503, 504}

\* C18: a request has no response until proxy() returns, and then one that
\* never changes: the upstream's response passed through, or a response of
\* the proxy with status 404, 502, 503 or 504 and an empty body.
C18_OneResponseOfKnownKind ==
  [][\A r \in Reqs :
       /\ handler'[r].pc # "done" => handler'[r].response = NoResponse
       /\ handler'[r].pc = "done" =>
            \/ /\ handler'[r].response.origin = "upstream"
               /\ handler'[r].upstream.kind = "response"
               /\ handler'[r].response.status = handler'[r].upstream.status
               /\ handler'[r].response.body = handler'[r].upstream.body
            \/ /\ handler'[r].response.origin = "proxy"
               /\ handler'[r].response.status \in ProxyStatuses
               /\ handler'[r].response.body = ""
       /\ handler[r].pc = "done" => handler'[r] = handler[r]]_vars

\* C18 happens: one request was answered by the proxy itself, the other with
\* the upstream's response.
C18_Witness ==
  /\ handler[1].pc = "done" /\ handler[1].response.origin = "proxy"
  /\ handler[1].response.status = 504
  /\ handler[2].pc = "done" /\ handler[2].response.origin = "upstream"
  /\ handler[2].response.status = 200

\* The checker of group g is enabled, has been started and has not been stopped.
CheckerRunning(g) ==
  /\ target_groups[g].health_check_enabled
  /\ health_check[g].exists
  /\ health_check[g].running

\* The targets of group g whose health flag is not false, in order.
FilteredByFlags(g) ==
  SelectSeq(AllIdx(Len(target_groups[g].targets)), LAMBDA i : ~FlagFalse(g, i))

\* C19: get_healthy_targets returns the targets filtered by their health
\* flags when the group's checker is enabled and running, and all targets
\* of the group in every other state: checks disabled, checker never
\* started, checker stopped.
C19_FilteredExactlyWhenRunning ==
  \A g \in GroupNames :
    View(g) = IF CheckerRunning(g) THEN FilteredByFlags(g)
              ELSE AllIdx(Len(target_groups[g].targets))

\* The group request r was routed to.
ServedBy(r) == GroupOfRule(handler[r].rule)

\* C20: when the application serves a request of a group configured with
\* HEALTH_CHECK_ENABLED=true, startup has started that group's checker: the
\* HealthCheck exists and is running.
C20_CheckerStartedAtStartup ==
  \A r \in Reqs :
    (/\ handler[r].pc # "idle"
     /\ handler[r].rule # 0
     /\ ServedBy(r) \in DOMAIN target_groups
     /\ target_groups[ServedBy(r)].health_check_enabled)
    => /\ health_check[ServedBy(r)].exists
       /\ health_check[ServedBy(r)].running

\* C21: from the initial health state of a target, whatever the sequence of
\* probe outcomes, consecutive_failures and consecutive_successes are never
\* both nonzero.
C21_CountersExclusive ==
  \A g \in GroupNames :
    health_check[g].exists =>
      \A i \in DOMAIN health_check[g].target_health :
        LET info == health_check[g].target_health[i]
        IN info.consecutive_failures = 0 \/ info.consecutive_successes = 0

\* A failed probe right after a successful one: the run of failures is one
\* long and began on a target whose flag was false, which only a success run
\* shorter than succeed_threshold can leave behind.
C21_Witness ==
  \E g \in GroupNames : \E i \in DOMAIN probes[g] :
    /\ ~probes[g][i].ok
    /\ probes[g][i].run = 1
    /\ ~probes[g][i].start_healthy
    /\ health_check[g].target_health[i].consecutive_failures = 1
    /\ health_check[g].target_health[i].consecutive_successes = 0

\* C22 as stated: for every rule and every URI u,
\* rewrite_uri(rewrite_uri(u)) = rewrite_uri(u).
C22_RewriteIdempotentAsStated ==
  rewritten.calls = 2 => rewritten.result = rewritten.uri

\* C22, amended: rewrite_uri(rewrite_uri(u)) = rewrite_uri(u) for a rule with an
\* empty path_rewrite, and for any rule when rewrite_uri(u) does not itself
\* begin with path_rewrite.
C22_RewriteIdempotent ==
  (/\ rewritten.calls = 2
   /\ \/ rewritten.rule.path_rewrite = Unset
      \/ ~startswith(rewritten.uri, rewritten.rule.path_rewrite))
  => rewritten.result = rewritten.uri

\* A URI that lost its prefix in the first call comes back unchanged from
\* the second.
C22_Witness ==
  /\ rewritten.calls = 2
  /\ rewritten.rule.path_rewrite = <<"/", "a">>
  /\ rewritten.uri = <<"/", "b", "/", "x">>
  /\ rewritten.result = rewritten.uri

\* The groups of the environment that Config() registers: a NAME before the
\* first unset one, a TARGETS that is not empty, and no later such group of
\* the same NAME.
Scanned(env) ==
  {i \in 1..Len(env.groups) : \A j \in 1..i : env.groups[j].NAME # UnsetName}

RegisteredGroups(env) ==
  {i \in Scanned(env) :
     /\ env.groups[i].TARGETS # <<>>
     /\ ~\E j \in Scanned(env) :
          j > i /\ env.groups[j].NAME = env.groups[i].NAME /\ env.groups[j].TARGETS # <<>>}

\* The hostnames of the group's target list that have no entry in WEIGHTS.
MissingHostnames(e) ==
  LET targets == parse_targets(e.TARGETS, NoWeights)
  IN {targets[k].hostname : k \in 1..Len(targets)} \ DOMAIN e.WEIGHTS

\* C23: under WEIGHTED, Config() succeeds only if every registered group has
\* a weights map with an entry for every hostname of its target list; a
\* registered group without weights, or with a hostname missing from them,
\* makes construction fail.
C23_WeightedNeedsWeights ==
  (constructed # "no" /\ environ.LOAD_BALANCING_ALGORITHM = "WEIGHTED") =>
    /\ constructed = "ok" =>
         \A g \in DOMAIN target_groups :
           /\ target_groups[g].weights_provided
           /\ \A k \in 1..Len(target_groups[g].targets) :
                target_groups[g].targets[k].hostname \in DOMAIN target_groups[g].weights
    /\ (\E i \in RegisteredGroups(environ) :
          \/ DOMAIN environ.groups[i].WEIGHTS = {}
          \/ MissingHostnames(environ.groups[i]) # {})
       => constructed = "ValueError"

\* Construction failed over a group whose weights name one of its two hosts.
C23_Witness ==
  /\ constructed = "ValueError"
  /\ environ.LOAD_BALANCING_ALGORITHM = "WEIGHTED"
  /\ \E i \in RegisteredGroups(environ) :
       /\ DOMAIN environ.groups[i].WEIGHTS = {"h1"}
       /\ MissingHostnames(environ.groups[i]) = {"h2"}
  /\ \A i \in RegisteredGroups(environ) :
       \A h \in DOMAIN environ.groups[i].WEIGHTS : environ.groups[i].WEIGHTS[h] >= 1

\* The names the claim takes out of the forwarded headers.
ClaimedDropped == {"host", "connection", "keep-alive", "transfer-encoding"}

\* C24: the forwarded headers are the request's headers minus those whose
\* lowercased name is host, connection, keep-alive or transfer-encoding; with
\* HEADER_CONVENTION_ENABLE false no Host header is copied from the client and
\* no X-Forwarded-*, X-Real-IP or X-Request-Id header is added.
C24_ForwardedHeaders ==
  sent.called =>
    /\ \A k \in DOMAIN sent.request :
         IF lower(k) \in ClaimedDropped
         THEN k \in DOMAIN sent.headers => (header_convention_enable /\ k = "Host")
         ELSE k \in DOMAIN sent.headers
    /\ ~header_convention_enable =>
         /\ "Host" \notin DOMAIN sent.headers
         /\ DOMAIN sent.headers \subseteq DOMAIN sent.request

\* Returns of target i counted so far.
Returns(i) == DictGet(tally.returned, i, 0)

\* C25: ROUND_ROBIN with a stable view of n targets: no increment of the
\* counter is lost to a concurrent caller, so once k*n concurrent picks have
\* returned, the counts of any two targets differ by at most 1.
C25_NoLostIncrement ==
  \A g \in GroupNames :
    LET n == NumTargets(g)
    IN (/\ ~target_groups[g].health_check_enabled
        /\ \A c \in Callers : callers[c].pc = "idle"
        /\ tally.started > 0
        /\ tally.started % n = 0)
       => \A i, j \in 1..n : Returns(i) - Returns(j) <= 1

\* C26: whatever the interleaving of select_target calls and changes of the
\* health flags, a ROUND_ROBIN pick indexes inside the healthy view the call
\* itself read, and returns a member of that view.
C26_PickInsideOwnView ==
  (pick.called /\ pick.view # <<>>) =>
    /\ pick.position \in 0..(Len(pick.view) - 1)
    /\ pick.target \in Members(pick.view)

\* A call that read a view of one target, and a counter that another call
\* had stored for a view of two.
C26_Witness ==
  /\ pick.called
  /\ Len(pick.view) = 1
  /\ pick.index = 1
  /\ pick.target = pick.view[1]
  /\ \E g \in GroupNames :
       get_healthy_targets(target_groups[g], health_check[g]) # pick.view

\* The session entry of client c in group g before the call.
Session(g, c) == DictGet(DictGet(sticky_sessions, g, EmptyDict), c, NoEntry)

\* The target _round_robin returns from the view with the counter as it is.
NextRoundRobin(g) ==
  View(g)[(DictGet(round_robin_counters, g, 0) % Len(View(g))) + 1]

\* C27: a STICKY lookup for client c that finds an entry with now >= expiry,
\* or whose target (ip, port) is not in the current healthy view, discards
\* the entry, takes the next round-robin target of the view and binds c to it
\* until now + SESSION_TTL; the target returned is always a member of the
\* view.
C27_StaleSessionReplaced ==
  [][\A g \in GroupNames, c \in Clients :
       (/\ algorithm = "STICKY"
        /\ selected'.called /\ selected'.group = g /\ selected'.client = c
        /\ View(g) # <<>>)
       => /\ selected'.target \in Members(View(g))
          /\ (/\ Session(g, c) # NoEntry
              /\ \/ selected'.time >= Session(g, c).expiration_time
                 \/ ~\E k \in 1..Len(View(g)) :
                       SameAddress(target_groups[g], View(g)[k], Session(g, c).target))
             => /\ discarded' = Session(g, c)
                /\ selected'.target = NextRoundRobin(g)
                /\ sticky_sessions'[g][c] =
                     [target |-> selected'.target,
                      expiration_time |-> selected'.time + session_ttl]]_vars

\* The latest call deleted a session that had not expired, because its
\* target had left the view, and bound the client to another target.
C27_Witness ==
  /\ algorithm = "STICKY"
  /\ selected.called
  /\ discarded # NoEntry
  /\ selected.time < discarded.expiration_time
  /\ selected.target # discarded.target
  /\ sticky_sessions[selected.group][selected.client].expiration_time
       = selected.time + session_ttl

\* avg_ttfb of target i as a fraction: the mean of its samples, 0 if none.
MeanNum(g, i) == SumSeq(ttfb_samples[g][i])

MeanDen(g, i) == IF ttfb_samples[g][i] = <<>> THEN 1 ELSE Len(ttfb_samples[g][i])

\* active_connections * max(avg_ttfb, 0.001) of target i, as a fraction.
FlooredNum(g, i) ==
  active_connections[g][i] *
    (IF MeanNum(g, i) >= UnknownAvg * MeanDen(g, i) THEN MeanNum(g, i)
     ELSE UnknownAvg * MeanDen(g, i))

\* active_connections * avg_ttfb of target i, avg_ttfb replaced by 0.001
\* only when it is 0.
ReplacedNum(g, i) ==
  active_connections[g][i] *
    (IF MeanNum(g, i) > 0 THEN MeanNum(g, i) ELSE UnknownAvg * MeanDen(g, i))

\* The member of the view that minimises num(i) / MeanDen(i), the earliest
\* of the view among equals.
EarliestMinimum(g, num(_, _)) ==
  LET view == View(g)
      less(i, j) == num(g, i) * MeanDen(g, j) < num(g, j) * MeanDen(g, i)
  IN view[CHOOSE k \in 1..Len(view) :
            /\ \A j \in 1..Len(view) : ~less(view[j], view[k])
            /\ \A j \in 1..(k - 1) : less(view[k], view[j])]

\* C28 as stated: under LRT select_target returns the healthy target that
\* minimises active_connections * max(avg_ttfb, 0.001), the earliest in the
\* group's target order among those that share the minimum.
C28_LeastResponseTimeAsStated ==
  (algorithm = "LRT" /\ selected.called /\ View(selected.group) # <<>>) =>
    selected.target = EarliestMinimum(selected.group, FlooredNum)

\* C28, amended: under LRT select_target returns the healthy target that
\* minimises active_connections * avg_ttfb, where avg_ttfb is the mean of
\* the recorded samples and counts as 0.001 when it is 0; a mean between 0
\* and 0.001 is used as it is. Among the targets that share the minimum the
\* earliest in the group's target order is returned; weight takes no part.
C28_LeastResponseTime ==
  (algorithm = "LRT" /\ selected.called /\ View(selected.group) # <<>>) =>
    selected.target = EarliestMinimum(selected.group, ReplacedNum)

\* Two busy targets share the minimum, a third has a larger metric, and the
\* call returned the earlier of the two.
C28_Witness ==
  /\ algorithm = "LRT"
  /\ selected.called
  /\ LET g == selected.group
         view == View(g)
     IN /\ Len(view) = 3
        /\ selected.target = view[2]
        /\ active_connections[g][view[2]] > 0
        /\ ReplacedNum(g, view[2]) * MeanDen(g, view[3])
             = ReplacedNum(g, view[3]) * MeanDen(g, view[2])
        /\ ReplacedNum(g, view[2]) * MeanDen(g, view[1])
             < ReplacedNum(g, view[1]) * MeanDen(g, view[2])

\* A step sends the upstream request of r.
Sends(r) == handler[r].pc # "forwarding" /\ handler'[r].pc = "forwarding"

\* C29: a request is dispatched upstream at most once, to the one target
\* selected for it: a step that sends its upstream request finds it not yet
\* dispatched and counts one connection on its target and on nothing else,
\* and no connection is counted otherwise; when the upstream call ends,
\* also by a Timeout (504) or a ConnectionError (502), the request is
\* answered with that outcome's response and nothing more happens to it.
C29_DispatchedOnce ==
  [][/\ \A r \in Reqs :
          /\ Sends(r) =>
                /\ ~handler[r].dispatched
                /\ handler[r].target # None
                /\ handler'[r].target = handler[r].target
                /\ active_connections' =
                     [active_connections EXCEPT
                        ![handler[r].group][handler[r].target] = @ + 1]
          /\ (handler[r].pc = "forwarding" /\ handler'[r].pc # "forwarding") =>
                /\ handler'[r].pc = "done"
                /\ handler'[r].upstream.kind = "Timeout" =>
                     handler'[r].response = handle_error(504)
                /\ handler'[r].upstream.kind = "ConnectionError" =>
                     handler'[r].response = handle_error(502)
          /\ handler[r].pc = "done" => handler'[r] = handler[r]
     /\ \A g \in DOMAIN active_connections : \A t \in DOMAIN active_connections[g] :
          active_connections'[g][t] > active_connections[g][t] =>
            \E r \in Reqs : Sends(r) /\ handler[r].group = g /\ handler[r].target = t
    ]_vars

\* A request whose one dispatch timed out is answered 504 although its
\* group has another target.
C29_Witness ==
  \E r \in Reqs :
    /\ handler[r].pc = "done"
    /\ handler[r].dispatched
    /\ handler[r].upstream.kind = "Timeout"
    /\ handler[r].response = handle_error(504)
    /\ \E g \in GroupNames : Len(target_groups[g].targets) > 1

\* stop() has been called on the checker of g.
Stopped(g) == health_check[g].exists /\ ~health_check[g].running

\* C30: once the checker thread has read the stop signal it is never again
\* at a probe or at the head of the for loop, at most one probe (the one
\* in flight) ends after stop(), and after stop() the thread eventually
\* returns from _health_check_loop.
C30_StopEndsChecker ==
  /\ [](\A g \in GroupNames :
          /\ loop[g].observed => loop[g].pc \in {"sleep", "while", "exited"}
          /\ loop[g].late <= 1)
  /\ \A g \in GroupNames : Stopped(g) ~> (loop[g].pc = "exited")

\* stop() fell while a probe was in flight: that probe ended, the thread
\* then saw the signal and has returned.
C30_Witness ==
  \E g \in GroupNames :
    /\ Stopped(g)
    /\ loop[g].pc = "exited"
    /\ loop[g].observed
    /\ loop[g].late = 1

\* No probe of target i of g has come to an end: the target has no record,
\* or the record its first probe created.
FirstProbePending(g, i) ==
  \/ i \notin DOMAIN health_check[g].target_health
  \/ /\ health_check[g].target_health[i].consecutive_failures = 0
     /\ health_check[g].target_health[i].consecutive_successes = 0

\* C31: a target none of whose probes has come to an end, before the
\* checker starts, while it runs and after it is stopped, is healthy for
\* is_target_healthy and is in the healthy view of its group.
C31_UnprobedIsHealthy ==
  \A g \in GroupNames : \A i \in 1..NumTargets(g) :
    FirstProbePending(g, i) =>
      /\ is_target_healthy(health_check[g], i)
      /\ i \in Members(View(g))

\* The first probe of the second target is in flight, the first target
\* has been found unhealthy.
C31_Witness ==
  \E g \in GroupNames :
    /\ loop[g].pc = "probe"
    /\ thread[g] = 2
    /\ 2 \in DOMAIN health_check[g].target_health
    /\ FirstProbePending(g, 2)
    /\ View(g) = <<2>>

\* C32: for every request the client address _sticky uses and the one
\* forward_request puts into X-Forwarded-For and X-Real-IP are equal.
C32_OneClientAddress ==
  derived.called => derived.sticky = derived.forwarded

\* The locks thread c holds.
LocksOf(c) ==
  (IF sticky_lock = c THEN {<<"sticky_lock">>} ELSE {})
    \cup {k \in DOMAIN lock : lock[k] = c}

\* C33: a request thread whose upstream call is in flight (session.request
\* has been called and the response has not been read to its end) holds
\* neither sticky_lock nor the lock of any target.
C33_NoLockAcrossUpstreamCall ==
  \A c \in Callers :
    workers[c].pc \in {"flight", "ttfb", "content"} => LocksOf(c) = {}

\* One thread's upstream call is in flight while the other holds the
\* sticky lock, and a third request has been served in between.
C33_Witness ==
  \E c, d \in Callers :
    /\ workers[c].pc = "flight"
    /\ workers[d].pc = "lookup"
    /\ sticky_lock = d
    /\ tally.started >= 3

\* Threads c and d have each been given a target for a request of the same
\* client that began while the client had no session.
ServedFirstRequests(c, d) ==
  /\ c # d
  /\ workers[c].first /\ workers[d].first
  /\ workers[c].served /\ workers[d].served
  /\ workers[c].client = workers[d].client

\* The request of c reads the clock before a session bound by the request
\* of d expires, and the target of d is in the healthy view c read.
WithinSession(c, d) ==
  /\ workers[c].time < NewExpiration(workers[d].time)
  /\ \E k \in 1..Len(workers[c].targets) : workers[c].targets[k] = workers[d].target

Forwarding(g, t) ==
  {c \in Callers :
     /\ workers[c].target = t
     /\ workers[c].pc \in {"flight", "ttfb", "ttfb_write", "content", "dec", "dec_write"}}

\* C37: in every interleaving of the request threads a target's
\* active_connections is the number of forward_request calls for it that
\* have incremented and not yet decremented, and dec_connections never
\* finds the counter at 0.
C37_ActiveConnectionsExact ==
  /\ \A g \in GroupNames : \A t \in 1..NumTargets(g) :
       active_connections[g][t] = Cardinality(Forwarding(g, t))
  /\ \A c \in Callers : workers[c].pc = "dec_write" => workers[c].n > 0

\* Two upstream calls of the same target are in flight, and one thread is
\* about to decrement while the other still waits for its response.
C37_Witness ==
  \E c, d \in Callers, g \in GroupNames :
    /\ workers[c].pc = "dec_write"
    /\ workers[d].pc = "flight"
    /\ workers[c].target = workers[d].target
    /\ active_connections[g][workers[c].target] = 2

\* The time of the latest binding of client c in group g.
BoundAt(g, c) == bindings[g][c].time

\* C35: the expiry stored for a client is always the time of its latest
\* binding plus SESSION_TTL, however many hits followed the binding, and
\* a request that reads the clock at or after that instant discards the
\* binding.
C35_HitsDoNotExtend ==
  [][\A g \in GroupNames, c \in Clients :
       /\ Session(g, c)' # NoEntry =>
            Session(g, c)'.expiration_time = BoundAt(g, c)' + session_ttl
       /\ (/\ Session(g, c) # NoEntry
           /\ selected'.called /\ selected'.group = g /\ selected'.client = c
           /\ selected'.target # None
           /\ selected'.time >= BoundAt(g, c) + session_ttl)
          => /\ discarded' = Session(g, c)
             /\ BoundAt(g, c)' = selected'.time]_vars

\* The latest call was a hit made after the binding and just before the
\* expiry, which is still the time of binding plus SESSION_TTL.
C35_Witness ==
  \E g \in GroupNames, c \in Clients :
    /\ Session(g, c) # NoEntry
    /\ selected.called /\ selected.group = g /\ selected.client = c
    /\ selected.target = Session(g, c).target
    /\ selected.time > BoundAt(g, c)
    /\ selected.time + 1 = Session(g, c).expiration_time

\* C36: whatever start() and stop() calls are made, no two threads of one
\* HealthCheck are inside _check_target_health at the same time.
C36_OneProbeLoop ==
  \A g \in GroupNames : \A j, k \in DOMAIN loops[g] :
    (loops[g][j].pc = "probe" /\ loops[g][k].pc = "probe") => j = k

\* The health record of target i of g, InitialHealth before its first probe.
HealthInfo(g, i) == DictGet(health_check[g].target_health, i, InitialHealth)

\* C38: after every probe observation a target with consecutive_failures
\* at or above the failure threshold is unhealthy and one with
\* consecutive_successes at or above the succeed threshold is healthy, and
\* the flag turns false only in a step that observes a failure of the
\* target and true only in a step that observes a success.
C38_FlagFollowsCounters ==
  [][\A g \in GroupNames : \A i \in 1..NumTargets(g) :
       /\ HealthInfo(g, i)'.consecutive_failures >= health_check'[g].failure_threshold
            => ~HealthInfo(g, i)'.healthy
       /\ HealthInfo(g, i)'.consecutive_successes >= health_check'[g].succeed_threshold
            => HealthInfo(g, i)'.healthy
       /\ (HealthInfo(g, i).healthy /\ ~HealthInfo(g, i)'.healthy)
            => (thread[g] = i /\ thread'[g] = i + 1 /\ ~probes'[g][i].ok)
       /\ (~HealthInfo(g, i).healthy /\ HealthInfo(g, i)'.healthy)
            => (thread[g] = i /\ thread'[g] = i + 1 /\ probes'[g][i].ok)]_vars

\* A target that was unhealthy has reached the succeed threshold and is
\* healthy again, while another has reached the failure threshold.
C38_Witness ==
  \E g \in GroupNames : \E i, j \in 1..NumTargets(g) :
    /\ Probed(g, i) /\ probes[g][i].ok /\ ~probes[g][i].start_healthy
    /\ HealthInfo(g, i).healthy
    /\ HealthInfo(g, i).consecutive_successes >= health_check[g].succeed_threshold
    /\ ~HealthInfo(g, j).healthy
    /\ HealthInfo(g, j).consecutive_failures >= health_check[g].failure_threshold

\* No connection is counted on a target of the healthy view of g.
ViewIdle(g) == \A k \in 1..Len(View(g)) : active_connections[g][View(g)[k]] = 0

\* No request is between its selection and the end of forward_request.
NoneInFlight == \A r \in Reqs : handler[r].pc \in {"idle", "done"}

\* C39: under LRT a select_target call made while no connection is
\* counted on a healthy target returns the first target of the healthy
\* view, whatever TTFB samples are recorded; that is the case for every
\* request that begins when no other request is in flight.
C39_IdleLrtTakesFirst ==
  [][\A g \in GroupNames :
       (algorithm = "LRT" /\ selected'.called /\ selected'.group = g /\ View(g) # <<>>)
       => /\ NoneInFlight => ViewIdle(g)
          /\ ViewIdle(g) => selected'.target = View(g)[1]]_vars

\* The second request of a sequential stream is sent to the first healthy
\* target, whose recorded average is larger than that of a later target.
C39_Witness ==
  \E g \in GroupNames :
    /\ selected.called /\ selected.group = g
    /\ Len(View(g)) > 1
    /\ selected.target = View(g)[1]
    /\ handler[1].pc = "done" /\ handler[1].dispatched
    /\ handler[2].pc = "selected"
    /\ AvgLess(g, View(g)[2], View(g)[1])

\* The entry of group h in a per-group table of the LoadBalancer, <<>>
\* when the table has none.
EntryOf(table, h) == IF h \in DOMAIN table THEN <<table[h]>> ELSE <<>>

\* C40: a select_target call for group g leaves the round-robin counter,
\* the weighted counter and list and the sticky sessions of every other
\* group as they were, and the health state of every group.
C40_SelectionStateIsolated ==
  [][\A g \in FrameGroups :
       (selected'.called /\ selected'.group = g)
       => /\ \A h \in FrameGroups \ {g} :
               /\ EntryOf(round_robin_counters', h) = EntryOf(round_robin_counters, h)
               /\ EntryOf(weighted_counters', h) = EntryOf(weighted_counters, h)
               /\ EntryOf(weighted_target_lists', h) = EntryOf(weighted_target_lists, h)
               /\ EntryOf(sticky_sessions', h) = EntryOf(sticky_sessions, h)
          /\ health_check' = health_check]_vars

\* Both groups have served the client, each with a session and a counter
\* of its own, and the latest call advanced only its group's counter.
C40_Witness ==
  /\ algorithm = "STICKY"
  /\ selected.called /\ selected.group = "api"
  /\ DOMAIN sticky_sessions = FrameGroups
  /\ "A" \in DOMAIN sticky_sessions["backend"]
  /\ "A" \in DOMAIN sticky_sessions["api"]
  /\ sticky_sessions["api"]["A"].expiration_time
        > sticky_sessions["backend"]["A"].expiration_time
  /\ round_robin_counters["backend"] # round_robin_counters["api"]

====
